---- MODULE Spec2Model ----
(***************************************************************************)
(* State-machine model of lotto-auto-bot: the retry executor               *)
(* (withRetries), the fixed-parameter purchase (buyLotto645Auto with       *)
(* getBuyRequirements and buildAutoPickParam) and the accumulating         *)
(* purchase (buyPension720Auto with its polling helpers).                  *)
(*                                                                         *)
(* Each function of the source is one sequential process whose position is *)
(* a pc variable; the portal (server, page, frame, dialogs) is the         *)
(* environment and answers nondeterministically at every point where the   *)
(* code reads it.  Every specification runs one call of one function; the  *)
(* variables of the other functions stay idle.  The two entry points       *)
(* (main and run of index.ts and of check-weekly.ts) run over their        *)
(* environment variables, with the calls they await returning or throwing. *)
(***************************************************************************)
EXTENDS Integers, Sequences, FiniteSets, TLC

VARIABLES
    \* ---- withRetries (one generic call) ----
    rt,             \* the frame of the running withRetries call
    rtLog,          \* results of the action invocations, in order (history)
    \* ---- buyLotto645Auto ----
    lottoCount,     \* options.gameCount as passed by the caller
    lpc,            \* position in buyLotto645Auto / getBuyRequirements
    readyRt,        \* withRetries frame around the readiness request
    execRt,         \* withRetries frame around the execBuy request
    requirements,   \* BuyRequirements held by buyLotto645Auto
    tokensIssued,   \* readiness tokens the server has issued so far
    sentForms,      \* execBuy forms sent, in order (history)
    purchases,      \* execBuy requests the server has processed (history)
    lottoNet,       \* network requests issued by the call (history)
    response,       \* the response withRetries handed back for execBuy
    lottoOutcome,   \* "running" | "returned" | "error"
    lottoError,     \* the error raised to the caller, when there is one
    \* ---- buyPension720Auto ----
    pensionCount,   \* options.gameCount as passed by the caller
    ppc,            \* position in buyPension720Auto and its helpers
    page,           \* "none" | "open" | "closed": the page of the call
    pensionActed,   \* some navigation or frame command was issued (history)
    dialogMessages, \* texts pushed by the page's dialog handler
    stage,          \* 1..4: index into targetUrls; 5, 6: the UI fallbacks
    navigated,      \* addresses page.goto was called with during discovery,
                    \* in order (history)
    elapsed,        \* time since startedAt of the running poll loop
    triggeredTabView,
    tabViewCalls,   \* tab-switch nudges of the running discovery poll (history)
    gameFrame,      \* "null" | "frame"
    canReadBuyCount,
    attempt,        \* loop counter of the accumulation loop
    beforeCount,    \* a count, or Null
    data,           \* the frame's global result object
    lotNo,          \* the number requestAutoLotNo returned
    selectedGameCount,
    appended,       \* addBuyDataOne invocations (history)
    submits,        \* doOrderRequest invocations (history)
    submittedAt,    \* Len(dialogMessages) when the submit command was issued
    badCodeSeen,    \* a poll read a result code other than "" and "100"
    orderNo,        \* order identifier of the result, or Null
    pensionOutcome, \* "running" | "returned" | "error"
    pensionError,   \* the error raised to the caller, when there is one
    \* ---- submitLogin ----
    apc,            \* position in the closure submitLogin hands to withRetries
    loginRt,        \* withRetries frame around that closure
    steps,          \* operations completed in the running attempt, in order
                    \* (history)
    primary,        \* what the login-check response of the running attempt
                    \* said: "none" | "ok" | "mismatch" | "other"
    key,            \* the key material held by the running attempt: its
                    \* number, or 0
    keyLog,         \* keyLog[i]: the attempt in which the portal issued key i
    keyRequests,    \* requests to the key endpoint (history)
    posts,          \* credential POSTs to the login-check endpoint: attempt
                    \* and key used (history)
    authFailure,    \* an attempt met a missing key or an embedded error other
                    \* than the mismatch (history)
    normalizations, \* normalizeAuthCookies executions: attempt and path
                    \* (history)
    loginOutcome,   \* "running" | "returned" | "error"
    loginError,     \* the error raised to the caller, when there is one
    \* ---- normalizeAuthCookies ----
    jpc,            \* "idle" | "call" | "done"
    jar,            \* the cookies of the context, in the order of cookies()
    jar0,           \* the jar before the call (history)
    added,          \* the argument of each addCookies call (history)
    \* ---- getUserBalance ----
    bpc,            \* "idle" | "home" | "request" | "done"
    bAttempt,       \* loop counter of getUserBalance
    lastError,      \* the error captured by the catch block
    bLog,           \* what each attempt's request yielded, in order (history)
    bSleeps,        \* sleep(1000) calls (history)
    balanceOutcome, \* "running" | "returned" | "error"
    balanceResult,  \* the value returned or the error raised
    \* ---- discovery of buyPension720Auto, sub-document by sub-document ----
    inspecting,     \* what the running inspections know of each frame so far
    frameSignals,   \* the PensionFrameSignal list of the last inspection
    outstanding,    \* browser commands issued and not yet settled
    candidates,     \* candidates after the sort (indices into frameSignals)
    selected,       \* index of the frame the poll returned, or 0
    gameResponseStatus, \* "unknown" | 200
    gameResponseUrl,
    pensionLastError,   \* lastError of buyPension720Auto
    diagnostic,     \* the parts of the message of the final discovery error
    \* ---- hasHardFailureDialog alone ----
    hpc,            \* "call" | "done"
    dialogArg,      \* the argument
    dialogResult,   \* the result
    \* ---- an entry point: main and run of index.ts or check-weekly.ts ----
    mpc,            \* position in main and run
    env,            \* process.env, the variables the entry point reads
    browser,        \* "none" | "open" | "closed"
    context,        \* "none" | "open" | "closed"
    mainCalls,      \* awaited calls of the try block, with their outcome
    summary,        \* statuses handed to writeGithubSummary, in order
    mainError,      \* message of the error main threw, or NoMainError
    mainOutcome     \* "running" | "returned" | "error": the promise of run

rtVars == <<rt, rtLog>>
lottoVars == <<lottoCount, lpc, readyRt, execRt, requirements, tokensIssued,
               sentForms, purchases, lottoNet, response, lottoOutcome,
               lottoError>>
pensionVars == <<pensionCount, ppc, page, pensionActed, dialogMessages, stage,
                 navigated, elapsed, triggeredTabView, tabViewCalls,
                 gameFrame, canReadBuyCount, attempt,
                 beforeCount, data, lotNo, selectedGameCount,
                 appended, submits, submittedAt, badCodeSeen,
                 orderNo, pensionOutcome, pensionError>>
\* groups of the pension variables, for the frame conditions
discVars == <<stage, navigated, triggeredTabView, tabViewCalls, gameFrame>>
accVars == <<canReadBuyCount, attempt, beforeCount, data, lotNo,
             selectedGameCount, appended, badCodeSeen>>
subVars == <<submits, submittedAt, orderNo>>
endVars == <<page, pensionOutcome, pensionError>>
loginVars == <<apc, loginRt, steps, primary, key, keyLog, keyRequests, posts,
               authFailure, normalizations, loginOutcome, loginError>>
jarVars == <<jpc, jar, jar0, added>>
balanceVars == <<bpc, bAttempt, lastError, bLog, bSleeps, balanceOutcome,
                 balanceResult>>
authVars == <<loginVars, jarVars, balanceVars>>
scanVars == <<inspecting, frameSignals, outstanding, candidates, selected,
              gameResponseStatus, gameResponseUrl, pensionLastError,
              diagnostic>>
detectVars == <<hpc, dialogArg, dialogResult>>
mainVars == <<mpc, env, browser, context, mainCalls, summary, mainError,
              mainOutcome>>
auxVars == <<scanVars, detectVars, mainVars>>
vars == <<rtVars, lottoVars, pensionVars, authVars, auxVars>>

(***************************************************************************)
(* Bounds of the model.                                                    *)
(***************************************************************************)
\* largest maxRetries the generic withRetries call is started with
MaxRetriesArg == 5
\* largest integer offered as a requested count (valid counts are 1..5)
MaxCountInput == 6
\* time units after which a poll loop's timeout has elapsed
PollBudget == 2
\* dialogs the portal raises during one call
MaxDialogs == 2
\* sub-documents attached to the page at a discovery tick (main frame included)
MaxFrames == 2
\* largest value the portal shows in the BUY_CNT input
MaxBuyCount == 5
\* cookies in the jar normalizeAuthCookies is given
MaxCookies == 2

Min(a, b) == IF a < b THEN a ELSE b

(***************************************************************************)
(* withRetries: auth.ts 31-46 and, identically, check-weekly.ts 246-263.   *)
(* A frame holds the loop counter, the captured error and, as history, the *)
(* number of action invocations and of sleeps.                             *)
(***************************************************************************)
NoValue == "none"
Undefined == "undefined"
ActionValues == {"v1", "v2"}
ActionErrors == {"e1", "e2"}
\* what one invocation of action() does: resolve with a value or reject
ActionResults ==
    {[ok |-> TRUE, v |-> x] : x \in ActionValues}
        \cup {[ok |-> FALSE, v |-> x] : x \in ActionErrors}

\* let currentError; for (let attempt = 1; attempt <= maxRetries; ...)
\* with the loop condition already evaluated for the first iteration
RetryFrame(maxRetries) ==
    [maxRetries |-> maxRetries, attempt |-> 1, currentError |-> Undefined,
     status |-> IF 1 <= maxRetries THEN "calling" ELSE "thrown",
     value |-> NoValue, calls |-> 0, sleeps |-> 0]

\* a frame that is not in use
NoFrame ==
    [maxRetries |-> 0, attempt |-> 0, currentError |-> Undefined,
     status |-> "idle", value |-> NoValue, calls |-> 0, sleeps |-> 0]

\* mutant: a success does not end the loop
withRetriesNoStop(r, res) ==
    LET more == r.attempt + 1 <= r.maxRetries IN
    [r EXCEPT !.calls = @ + 1,
              !.value = IF res.ok THEN res.v ELSE @,
              !.currentError = IF res.ok THEN @ ELSE res.v,
              !.attempt = @ + 1,
              !.status = IF more THEN "calling"
                         ELSE IF res.ok THEN "returned" ELSE "thrown"]

\* mutant: the delay follows every failed attempt, the last one included
withRetriesAlwaysSleeps(r, res) ==
    IF res.ok
    THEN [r EXCEPT !.status = "returned", !.value = res.v, !.calls = @ + 1]
    ELSE [r EXCEPT !.currentError = res.v,
                   !.calls = @ + 1,
                   !.sleeps = @ + 1,
                   !.attempt = @ + 1,
                   !.status = IF r.attempt + 1 <= r.maxRetries
                              THEN "calling" ELSE "thrown"]

\* mutant: only the first error is captured
withRetriesFirstError(r, res) ==
    IF res.ok
    THEN [r EXCEPT !.status = "returned", !.value = res.v, !.calls = @ + 1]
    ELSE [r EXCEPT !.currentError = IF @ = "undefined" THEN res.v ELSE @,
                   !.calls = @ + 1,
                   !.sleeps = IF r.attempt < r.maxRetries THEN @ + 1 ELSE @,
                   !.attempt = @ + 1,
                   !.status = IF r.attempt + 1 <= r.maxRetries
                              THEN "calling" ELSE "thrown"]

\* one iteration of the loop body: try { return await action() }
\* catch (error) { currentError = error; if (attempt < maxRetries) sleep }
\* then attempt += 1 and the loop condition; after the loop, throw
withRetries(r, res) ==
    IF res.ok
    THEN [r EXCEPT !.status = "returned", !.value = res.v, !.calls = @ + 1]
    ELSE [r EXCEPT !.currentError = res.v,
                   !.calls = @ + 1,
                   !.sleeps = IF r.attempt < r.maxRetries THEN @ + 1 ELSE @,
                   !.attempt = @ + 1,
                   !.status = IF r.attempt + 1 <= r.maxRetries
                              THEN "calling" ELSE "thrown"]

RetryIdle ==
    /\ rt = NoFrame
    /\ rtLog = <<>>

RetryStart ==
    /\ \E m \in 0..MaxRetriesArg : rt = RetryFrame(m)
    /\ rtLog = <<>>

\* the action is invoked once and the loop body handles its result
RetryInvoke ==
    /\ rt.status = "calling"
    /\ \E res \in ActionResults :
          /\ rt' = withRetries(rt, res)
          /\ rtLog' = Append(rtLog, res)
    /\ UNCHANGED <<lottoVars, pensionVars, auxVars, authVars>>

(***************************************************************************)
(* Requested counts.  options.gameCount is any JavaScript number: int says *)
(* whether Number.isInteger holds of it and n is its integer part.         *)
(***************************************************************************)
CountInputs ==
    {[int |-> TRUE, n |-> k] : k \in 0..MaxCountInput}
        \cup {[int |-> FALSE, n |-> 2]}

\* !Number.isInteger(gameCount) || gameCount < 1 || gameCount > 5, negated
\* (check-weekly.ts 394, part_000 406, part_002 47)
ValidCount(c) == c.int /\ c.n >= 1 /\ c.n <= 5

(***************************************************************************)
(* buildAutoPickParam (check-weekly.ts 376-386) over lottoSlots            *)
(* (constants.ts 20).  JSON.stringify of the entries is the list itself,   *)
(* entry by entry, in order; the model keeps the list.                     *)
(***************************************************************************)
lottoSlots == <<"A", "B", "C", "D", "E">>

\* Array.prototype.slice(0, end) for 0 <= end
Slice0(seq, end) == SubSeq(seq, 1, Min(end, Len(seq)))

\* mutant: slice(1, gameCount + 1), the slots shifted by one
buildAutoPickParamShifted(gameCount) ==
    LET slots == SubSeq(lottoSlots, 2, Min(gameCount + 1, Len(lottoSlots))) IN
    [i \in 1..Len(slots) |->
        [genType |-> "0", arrGameChoiceNum |-> "null", alpabet |-> slots[i]]]

buildAutoPickParam(gameCount) ==
    LET slots == Slice0(lottoSlots, gameCount) IN
    [i \in 1..Len(slots) |->
        [genType |-> "0", arrGameChoiceNum |-> "null", alpabet |-> slots[i]]]

(***************************************************************************)
(* The portal as buyLotto645Auto sees it.                                  *)
(***************************************************************************)
\* maxRetries at both call sites of check-weekly.ts (337, 419)
LottoMaxRetries == 5

\* String.prototype.toUpperCase on the result messages the portal sends
ToUpperCase(s) ==
    CASE s = "success" -> "SUCCESS"
      [] s = "Success" -> "SUCCESS"
      [] s = "fail" -> "FAIL"
      [] s = "none" -> "NONE"
      [] s = "lotto" -> "LOTTO"
      [] s = "pension" -> "PENSION"
      [] s = "Pension" -> "PENSION"
      [] s = "all" -> "ALL"
      [] s = "lotto365" -> "LOTTO365"
      [] s = "lo40" -> "LO40"
      [] s = "lp72" -> "LP72"
      [] OTHER -> s

\* bodies of an execBuy response: BuyLottoResponse (types.ts 11-18);
\* Undefined stands for an absent field
ExecPayloads ==
    [loginYn : {"Y", "N", Undefined},
     resultCode : {"100", "SUCCESS"},
     resultMsg : {"SUCCESS", "success", "fail", Undefined}]

NoPayload == [loginYn |-> Undefined, resultCode |-> Undefined, resultMsg |-> Undefined]

\* an APIResponse of execBuy: an OK status with a JSON body, an OK status
\* with a body that is not JSON, or a non-OK status
ExecResponses ==
    {[status |-> 200, json |-> TRUE, payload |-> p] : p \in ExecPayloads}
        \cup {[status |-> 200, json |-> FALSE, payload |-> NoPayload],
              [status |-> 500, json |-> FALSE, payload |-> NoPayload]}

NoResponse == [status |-> 0, json |-> FALSE, payload |-> NoPayload]

NoRequirements ==
    [direct |-> 0, drawDate |-> Undefined, paymentDeadlineDate |-> Undefined,
     currentRound |-> Undefined]

NoError == [kind |-> "none", payload |-> NoPayload]

LottoFail(kind) ==
    /\ lottoOutcome' = "error"
    /\ lottoError' = [kind |-> kind, payload |-> NoPayload]
    /\ lpc' = "done"

LottoIdle ==
    /\ lottoCount = [int |-> TRUE, n |-> 0]
    /\ lpc = "idle"
    /\ readyRt = NoFrame
    /\ execRt = NoFrame
    /\ requirements = NoRequirements
    /\ tokensIssued = 0
    /\ sentForms = <<>>
    /\ purchases = 0
    /\ lottoNet = 0
    /\ response = NoResponse
    /\ lottoOutcome = "idle"
    /\ lottoError = NoError

LottoStart ==
    /\ lottoCount \in CountInputs
    /\ lpc = "validate"
    /\ readyRt = NoFrame
    /\ execRt = NoFrame
    /\ requirements = NoRequirements
    /\ tokensIssued = 0
    /\ sentForms = <<>>
    /\ purchases = 0
    /\ lottoNet = 0
    /\ response = NoResponse
    /\ lottoOutcome = "running"
    /\ lottoError = NoError

\* mutant: the count is not validated
LottoValidateSkipped ==
    /\ lpc = "validate"
    /\ lpc' = "ready"
    /\ readyRt' = RetryFrame(LottoMaxRetries)
    /\ UNCHANGED <<lottoCount, execRt, requirements, tokensIssued, sentForms,
                   purchases, lottoNet, response, lottoOutcome, lottoError>>
    /\ UNCHANGED <<rtVars, pensionVars, auxVars, authVars>>

\* buyLotto645Auto, check-weekly.ts 394-398: the count check, then the call
\* of getBuyRequirements, which starts withRetries on the readiness request
LottoValidate ==
    /\ lpc = "validate"
    /\ IF ValidCount(lottoCount)
       THEN /\ lpc' = "ready"
            /\ readyRt' = RetryFrame(LottoMaxRetries)
            /\ UNCHANGED <<lottoOutcome, lottoError>>
       ELSE /\ LottoFail("LOTTO_COUNT must be an integer between 1 and 5")
            /\ UNCHANGED readyRt
    /\ UNCHANGED <<lottoCount, execRt, requirements, tokensIssued, sentForms,
                   purchases, lottoNet, response>>
    /\ UNCHANGED <<rtVars, pensionVars, auxVars, authVars>>

\* getBuyRequirements, check-weekly.ts 326-349: one invocation of the
\* readiness POST inside withRetries; once withRetries returns, the status
\* and the ready_ip field are checked.  The server issues a new token for
\* every request that reaches it.
ReadyRequest ==
    /\ lpc = "ready"
    /\ readyRt.status = "calling"
    /\ lottoNet' = lottoNet + 1
    /\ \E reached \in BOOLEAN, answered \in BOOLEAN, status \in {200, 500},
          hasReadyIp \in BOOLEAN :
          /\ answered => reached
          /\ ~answered => (status = 200 /\ hasReadyIp)
          /\ tokensIssued' = IF reached THEN tokensIssued + 1 ELSE tokensIssued
          /\ LET res == IF answered
                        THEN [ok |-> TRUE, v |-> "response"]
                        ELSE [ok |-> FALSE, v |-> "network"]
                 r == withRetries(readyRt, res)
             IN /\ readyRt' = r
                /\ CASE r.status = "calling" ->
                          UNCHANGED <<lpc, requirements, lottoOutcome, lottoError>>
                     [] r.status = "thrown" ->
                          /\ LottoFail(r.currentError)
                          /\ UNCHANGED requirements
                     [] OTHER ->
                          IF status # 200
                          THEN /\ LottoFail("egovUserReadySocket failed")
                               /\ UNCHANGED requirements
                          ELSE IF ~hasReadyIp
                          THEN /\ LottoFail("ready_ip not found")
                               /\ UNCHANGED requirements
                          ELSE /\ requirements' =
                                     [requirements EXCEPT !.direct = tokensIssued']
                               /\ lpc' = "gamePage"
                               /\ UNCHANGED <<lottoOutcome, lottoError>>
    /\ UNCHANGED <<lottoCount, execRt, sentForms, purchases, response>>
    /\ UNCHANGED <<rtVars, pensionVars, auxVars, authVars>>

\* getBuyRequirements, check-weekly.ts 351-366: the game page GET (not
\* retried) and the three hidden inputs, each with its fallback; a missing
\* curRound leads to getCurrentRound
GamePageRequest ==
    /\ lpc = "gamePage"
    /\ lottoNet' = lottoNet + 1
    /\ \E result \in {"throws", "notOk", "ok"},
          hasDraw \in BOOLEAN, hasDeadline \in BOOLEAN, hasRound \in BOOLEAN :
          /\ result # "ok" => (hasDraw /\ hasDeadline /\ hasRound)
          /\ CASE result = "throws" ->
                    /\ LottoFail("network")
                    /\ UNCHANGED <<requirements, execRt>>
               [] result = "notOk" ->
                    /\ LottoFail("game645 page request failed")
                    /\ UNCHANGED <<requirements, execRt>>
               [] OTHER ->
                    /\ requirements' =
                          [requirements EXCEPT
                             !.drawDate = IF hasDraw THEN "ROUND_DRAW_DATE"
                                          ELSE "calculateFallbackDrawDate",
                             !.paymentDeadlineDate =
                                 IF hasDeadline THEN "WAMT_PAY_TLMT_END_DT"
                                 ELSE "calculateFallbackDeadlineDate",
                             !.currentRound = IF hasRound THEN "curRound"
                                              ELSE Undefined]
                    /\ lpc' = IF hasRound THEN "exec" ELSE "currentRound"
                    /\ execRt' = IF hasRound THEN RetryFrame(LottoMaxRetries)
                                 ELSE execRt
                    /\ UNCHANGED <<lottoOutcome, lottoError>>
    /\ UNCHANGED <<lottoCount, readyRt, tokensIssued, sentForms, purchases,
                   response>>
    /\ UNCHANGED <<rtVars, pensionVars, auxVars, authVars>>

\* getCurrentRound, check-weekly.ts 301-320: the main page GET (not
\* retried), lottoDrwNo + 1 or the base-round fallback
GetCurrentRound ==
    /\ lpc = "currentRound"
    /\ lottoNet' = lottoNet + 1
    /\ \E result \in {"throws", "lottoDrwNo", "baseRound"} :
          IF result = "throws"
          THEN /\ LottoFail("network")
               /\ UNCHANGED <<requirements, execRt>>
          ELSE /\ requirements' = [requirements EXCEPT !.currentRound = result]
               /\ lpc' = "exec"
               /\ execRt' = RetryFrame(LottoMaxRetries)
               /\ UNCHANGED <<lottoOutcome, lottoError>>
    /\ UNCHANGED <<lottoCount, readyRt, tokensIssued, sentForms, purchases,
                   response>>
    /\ UNCHANGED <<rtVars, pensionVars, auxVars, authVars>>

\* the form of the execBuy POST, check-weekly.ts 408-417
ExecForm ==
    [round |-> requirements.currentRound,
     direct |-> requirements.direct,
     nBuyAmount |-> lottoCount.n * 1000,
     param |-> buildAutoPickParam(lottoCount.n),
     ROUND_DRAW_DATE |-> requirements.drawDate,
     WAMT_PAY_TLMT_END_DT |-> requirements.paymentDeadlineDate,
     gameCnt |-> lottoCount.n]

\* buyLotto645Auto, check-weekly.ts 399-421: one invocation of the execBuy
\* POST inside withRetries.  The request is sent with the requirements
\* fetched before the loop; it may or may not reach the server before the
\* client gives up (resp = NoResponse: the POST rejects).
ExecBuyRequest ==
    /\ lpc = "exec"
    /\ execRt.status = "calling"
    /\ lottoNet' = lottoNet + 1
    /\ sentForms' = Append(sentForms, ExecForm)
    /\ \E reached \in BOOLEAN, resp \in ExecResponses \cup {NoResponse} :
          /\ resp # NoResponse => reached
          /\ purchases' = IF reached THEN purchases + 1 ELSE purchases
          /\ LET res == IF resp # NoResponse
                        THEN [ok |-> TRUE, v |-> "response"]
                        ELSE [ok |-> FALSE, v |-> "network"]
                 r == withRetries(execRt, res)
             IN /\ execRt' = r
                /\ CASE r.status = "calling" ->
                          UNCHANGED <<lpc, response, lottoOutcome, lottoError>>
                     [] r.status = "thrown" ->
                          /\ LottoFail(r.currentError)
                          /\ UNCHANGED response
                     [] OTHER ->
                          /\ response' = resp
                          /\ lpc' = "check"
                          /\ UNCHANGED <<lottoOutcome, lottoError>>
    /\ UNCHANGED <<lottoCount, readyRt, requirements, tokensIssued>>
    /\ UNCHANGED <<rtVars, pensionVars, auxVars, authVars>>

\* mutant: the result message is compared as sent, without toUpperCase
LottoAcceptsExact(payload) ==
    payload.loginYn = "Y" /\ payload.resultMsg = "SUCCESS"

\* check-weekly.ts 428-431: loginResult and resultMessage, the accepted case
LottoAccepts(payload) ==
    LET loginResult == payload.loginYn = "Y"
        resultMessage ==
            ToUpperCase(IF payload.resultMsg = Undefined THEN ""
                        ELSE payload.resultMsg)
    IN ~(~loginResult \/ resultMessage # "SUCCESS")

\* buyLotto645Auto, check-weekly.ts 423-435: status, JSON body, the two
\* fields; the error of the last case carries JSON.stringify(payload)
LottoCheckResponse ==
    /\ lpc = "check"
    /\ lpc' = "done"
    /\ IF response.status # 200
       THEN /\ lottoOutcome' = "error"
            /\ lottoError' = [kind |-> "execBuy failed", payload |-> NoPayload]
       ELSE IF ~response.json
       THEN /\ lottoOutcome' = "error"
            /\ lottoError' = [kind |-> "json", payload |-> NoPayload]
       ELSE IF LottoAccepts(response.payload)
       THEN /\ lottoOutcome' = "returned"
            /\ UNCHANGED lottoError
       ELSE /\ lottoOutcome' = "error"
            /\ lottoError' = [kind |-> "Lotto purchase failed",
                              payload |-> response.payload]
    /\ UNCHANGED <<lottoCount, readyRt, execRt, requirements, tokensIssued,
                   sentForms, purchases, lottoNet, response>>
    /\ UNCHANGED <<rtVars, pensionVars, auxVars, authVars>>

(***************************************************************************)
(* buyPension720Auto (part_000).  Texts are sequences of tokens: " " is a  *)
(* whitespace character, "w" any other character, and each failure keyword *)
(* of hasHardFailureDialog is one token, named by its romanisation.        *)
(***************************************************************************)
Null == "null"
\* getBuyCount's null (part_000 240, 246), beside the counts 0..MaxBuyCount
NullCount == -1

failKeywords ==
    {"silpae", "oryu", "bulga", "haeje", "jungji", "jeomgeom", "jehan",
     "bujok", "login"}

RECURSIVE TrimStart(_)
TrimStart(m) ==
    IF m # <<>> /\ Head(m) = " " THEN TrimStart(Tail(m)) ELSE m

RECURSIVE TrimEnd(_)
TrimEnd(m) ==
    IF m # <<>> /\ m[Len(m)] = " " THEN TrimEnd(SubSeq(m, 1, Len(m) - 1)) ELSE m

\* String.prototype.trim
Trim(m) == TrimEnd(TrimStart(m))

\* String.prototype.includes for a keyword
Includes(m, keyword) == \E i \in 1..Len(m) : m[i] = keyword

\* the value of a missing result: the empty text, falsy like null
NoDialog == <<>>

\* mutant: the last matching message wins
RECURSIVE hasHardFailureDialogLast(_)
hasHardFailureDialogLast(messages) ==
    IF messages = <<>> THEN NoDialog
    ELSE LET normalized == Trim(messages[Len(messages)]) IN
         IF \E keyword \in failKeywords : Includes(normalized, keyword)
         THEN normalized
         ELSE hasHardFailureDialogLast(SubSeq(messages, 1, Len(messages) - 1))

\* hasHardFailureDialog, part_000 384-396
RECURSIVE hasHardFailureDialog(_)
hasHardFailureDialog(messages) ==
    IF messages = <<>> THEN NoDialog
    ELSE LET normalized == Trim(Head(messages)) IN
         IF normalized = <<>> THEN hasHardFailureDialog(Tail(messages))
         ELSE IF \E keyword \in failKeywords : Includes(normalized, keyword)
         THEN normalized
         ELSE hasHardFailureDialog(Tail(messages))

\* texts of the dialogs the portal raises in the purchase flow
DialogTexts == {<<"w", " ">>, <<" ", "silpae", " ">>}

\* /^\d{6}$/.test
Digits == {"0", "1", "2", "3", "4", "5", "6", "7", "8", "9"}
IsSixDigits(t) == Len(t) = 6 /\ \A i \in 1..6 : t[i] \in Digits

\* the frame's result object as the poll of requestAutoLotNo reads it:
\* data?.resultCode ?? "", data?.selLotNo ?? ""
NoData == [resultCode |-> "", selLotNo |-> <<>>]
DataValues ==
    {NoData,
     [resultCode |-> "100", selLotNo |-> <<"1", "2", "3", "4", "5", "6">>],
     [resultCode |-> "100", selLotNo |-> <<"6", "5", "4", "3", "2", "1">>],
     [resultCode |-> "100", selLotNo |-> <<"1", "2", "3", "4", "5">>],
     [resultCode |-> "500", selLotNo |-> <<>>]}

\* what getBuyCount returns
BuyCountReads == 0..MaxBuyCount \cup {NullCount}

\* the wait at the end of a poll iteration takes at least one time unit
Waits(e) == (e + 1)..PollBudget

\* targetUrls, part_000 418 (5-8): the el host, the m host, the www host and
\* the base host, which is the www host again
targetUrls == <<"el", "m", "www", "www">>

(***************************************************************************)
(* Discovery signals, part_000 135-159 and 174-184.                        *)
(***************************************************************************)
FrameKinds ==
    [urlMatch : BOOLEAN, buyCntCount : 0..1, autoButtonCount : 0..1,
     orderNoCount : 0..1]

Snapshots == UNION {[1..n -> FrameKinds] : n \in 1..MaxFrames}

\* mutant: the weight of the primary control goes to the frames without it
ScoreControlInverted(f) ==
    (IF f.urlMatch THEN 4 ELSE 0)
        + (IF f.buyCntCount > 0 THEN 0 ELSE 10)
        + (IF f.autoButtonCount > 0 THEN 10 ELSE 0)
        + (IF f.orderNoCount > 0 THEN 2 ELSE 0)

\* inspectPension720Signals: the score of a sub-document
Score(f) ==
    (IF f.urlMatch THEN 4 ELSE 0)
        + (IF f.buyCntCount > 0 THEN 10 ELSE 0)
        + (IF f.autoButtonCount > 0 THEN 10 ELSE 0)
        + (IF f.orderNoCount > 0 THEN 2 ELSE 0)

\* mutant: the relaxed threshold is consulted beside the strict one
CandidatesBothThresholds(signals) ==
    {i \in 1..Len(signals) :
        \/ signals[i].buyCntCount > 0
        \/ signals[i].autoButtonCount > 0
        \/ Score(signals[i]) >= 4}

\* waitForPension720GameFrame 176-179: the indices of the candidates
Candidates(signals) ==
    LET strictCandidates ==
            {i \in 1..Len(signals) :
                \/ signals[i].buyCntCount > 0
                \/ signals[i].autoButtonCount > 0
                \/ Score(signals[i]) >= 14}
    IN IF strictCandidates # {} THEN strictCandidates
       ELSE {i \in 1..Len(signals) : Score(signals[i]) >= 4}

\* 181-184: the stable sort by descending score and candidates[0]; 0 when
\* there is no candidate
SelectFrame(signals) ==
    LET c == Candidates(signals)
        best == {i \in c : \A j \in c : Score(signals[j]) <= Score(signals[i])}
    IN IF c = {} THEN 0 ELSE CHOOSE i \in best : \A j \in best : i <= j

NoPensionError == [kind |-> "none", text |-> NoDialog]

PensionIdle ==
    /\ pensionCount = [int |-> TRUE, n |-> 0]
    /\ ppc = "idle"
    /\ page = "none"
    /\ pensionActed = FALSE
    /\ dialogMessages = <<>>
    /\ stage = 0
    /\ navigated = <<>>
    /\ elapsed = 0
    /\ triggeredTabView = FALSE
    /\ tabViewCalls = 0
    /\ gameFrame = Null
    /\ canReadBuyCount = FALSE
    /\ attempt = 0
    /\ beforeCount = NullCount
    /\ data = NoData
    /\ lotNo = <<>>
    /\ selectedGameCount = 0
    /\ appended = 0
    /\ submits = 0
    /\ submittedAt = 0
    /\ badCodeSeen = FALSE
    /\ orderNo = Null
    /\ pensionOutcome = "idle"
    /\ pensionError = NoPensionError

PensionStart ==
    /\ pensionCount \in CountInputs
    /\ ppc = "validate"
    /\ page = "none"
    /\ pensionActed = FALSE
    /\ dialogMessages = <<>>
    /\ stage = 0
    /\ navigated = <<>>
    /\ elapsed = 0
    /\ triggeredTabView = FALSE
    /\ tabViewCalls = 0
    /\ gameFrame = Null
    /\ canReadBuyCount = FALSE
    /\ attempt = 0
    /\ beforeCount = NullCount
    /\ data = NoData
    /\ lotNo = <<>>
    /\ selectedGameCount = 0
    /\ appended = 0
    /\ submits = 0
    /\ submittedAt = 0
    /\ badCodeSeen = FALSE
    /\ orderNo = Null
    /\ pensionOutcome = "running"
    /\ pensionError = NoPensionError

\* mutant: an error leaves the call without closing the page
PensionFailLeavesPage(kind, text) ==
    /\ pensionOutcome' = "error"
    /\ pensionError' = [kind |-> kind, text |-> text]
    /\ page' = page
    /\ ppc' = "done"

\* an error leaves the try block: finally { await page.close() }
PensionFail(kind, text) ==
    /\ pensionOutcome' = "error"
    /\ pensionError' = [kind |-> kind, text |-> text]
    /\ page' = "closed"
    /\ ppc' = "done"

\* mutant: the handler ends the call when the text holds a failure keyword
PortalDialogStopsFlow ==
    /\ page = "open"
    /\ Len(dialogMessages) < MaxDialogs
    /\ \E text \in DialogTexts :
          /\ dialogMessages' = Append(dialogMessages, text)
          /\ IF hasHardFailureDialog(<<text>>) # NoDialog
             THEN PensionFail("purchase failed", hasHardFailureDialog(<<text>>))
             ELSE UNCHANGED <<ppc, endVars>>
    /\ UNCHANGED <<pensionCount, pensionActed, elapsed, discVars, accVars,
                   subVars>>
    /\ UNCHANGED <<rtVars, lottoVars, authVars, auxVars>>

\* page.on("dialog", ...), part_000 412-415: the handler runs whenever the
\* portal raises a dialog while the call is suspended on a command
PortalDialog ==
    /\ page = "open"
    /\ Len(dialogMessages) < MaxDialogs
    /\ \E text \in DialogTexts : dialogMessages' = Append(dialogMessages, text)
    /\ UNCHANGED <<pensionCount, ppc, pensionActed, elapsed, discVars, accVars,
                   subVars, endVars>>
    /\ UNCHANGED <<rtVars, lottoVars, authVars, auxVars>>

\* part_000 406-418: the count check, then context.newPage() and the
\* dialog handler
PensionValidate ==
    /\ ppc = "validate"
    /\ IF ValidCount(pensionCount)
       THEN /\ page' = "open"
            /\ stage' = 1
            /\ ppc' = "goto"
            /\ UNCHANGED <<pensionOutcome, pensionError>>
       ELSE /\ pensionOutcome' = "error"
            /\ pensionError' = [kind |-> "PENSION_COUNT", text |-> NoDialog]
            /\ ppc' = "done"
            /\ UNCHANGED <<page, stage>>
    /\ UNCHANGED <<pensionCount, pensionActed, dialogMessages, elapsed, navigated,
                   triggeredTabView, tabViewCalls, gameFrame, accVars, subVars>>
    /\ UNCHANGED <<rtVars, lottoVars, authVars, auxVars>>

\* part_000 425-443: page.goto(targetUrl), whose failure is caught, and the
\* start of findPensionFrame
PensionGoto ==
    /\ ppc = "goto"
    /\ navigated' = Append(navigated, targetUrls[stage])
    /\ pensionActed' = TRUE
    /\ ppc' = "discover"
    /\ elapsed' = 0
    /\ triggeredTabView' = FALSE
    /\ tabViewCalls' = 0
    /\ UNCHANGED <<pensionCount, dialogMessages, stage, gameFrame, accVars,
                   subVars, endVars>>
    /\ UNCHANGED <<rtVars, lottoVars, authVars, auxVars>>

\* openWithUiFallback, part_000 207-227 (called at 451 and 456): goto
\* baseUrl and the tab switch, every failure swallowed; then findPensionFrame
PensionFallback ==
    /\ ppc = "fallback"
    /\ navigated' = Append(navigated, "base")
    /\ pensionActed' = TRUE
    /\ ppc' = "discover"
    /\ elapsed' = 0
    /\ triggeredTabView' = FALSE
    /\ tabViewCalls' = 0
    /\ UNCHANGED <<pensionCount, dialogMessages, stage, gameFrame, accVars,
                   subVars, endVars>>
    /\ UNCHANGED <<rtVars, lottoVars, authVars, auxVars>>

\* waitForPension720GameFrame, part_000 174-201: one iteration of the poll
DiscoverTick ==
    /\ ppc = "discover"
    /\ elapsed < PollBudget
    /\ \E snapshot \in Snapshots :
          LET sel == SelectFrame(snapshot) IN
          IF sel # 0
          THEN /\ gameFrame' = "frame"
               /\ ppc' = "found"
               /\ UNCHANGED <<elapsed, triggeredTabView, tabViewCalls>>
          ELSE /\ triggeredTabView' = TRUE
               /\ tabViewCalls' = IF triggeredTabView THEN tabViewCalls
                                  ELSE tabViewCalls + 1
               /\ elapsed' \in Waits(elapsed)
               /\ UNCHANGED <<ppc, gameFrame>>
    /\ UNCHANGED <<pensionCount, pensionActed, dialogMessages, stage, navigated,
                   accVars, subVars, endVars>>
    /\ UNCHANGED <<rtVars, lottoVars, authVars, auxVars>>

\* part_000 203-204 and 229-235: the poll timed out, findPensionFrame
\* returns null; 444-466: the next address, the UI fallbacks, the error
DiscoverTimeout ==
    /\ ppc = "discover"
    /\ elapsed >= PollBudget
    /\ IF stage < 6
       THEN /\ stage' = stage + 1
            /\ ppc' = IF stage < Len(targetUrls) THEN "goto" ELSE "fallback"
            /\ UNCHANGED endVars
       ELSE /\ PensionFail("frame not found after all fallback steps", NoDialog)
            /\ UNCHANGED stage
    /\ UNCHANGED <<pensionCount, pensionActed, dialogMessages, elapsed, navigated,
                   triggeredTabView, tabViewCalls, gameFrame, accVars, subVars>>
    /\ UNCHANGED <<rtVars, lottoVars, authVars, auxVars>>

\* part_000 444-468: discovery ends with gameFrame set; its locals (the
\* loop over targetUrls, the poll's flag) are left behind and
\* waitForPensionFrameReady starts
DiscoveryDone ==
    /\ ppc = "found"
    /\ ppc' = "frameReady"
    /\ elapsed' = 0
    /\ stage' = 0
    /\ navigated' = <<>>
    /\ triggeredTabView' = FALSE
    /\ tabViewCalls' = 0
    /\ UNCHANGED <<pensionCount, pensionActed, dialogMessages, gameFrame,
                   accVars, subVars, endVars>>
    /\ UNCHANGED <<rtVars, lottoVars, authVars, auxVars>>

\* waitForPensionFrameReady, part_000 266-281, one iteration; on return,
\* canReadBuyCount (470) and the loop's initialisation (471-472)
FrameReadyTick ==
    /\ ppc = "frameReady"
    /\ elapsed < PollBudget
    /\ \E hasBuyCount \in BOOLEAN, autoButton \in BOOLEAN, hasOrderArea \in BOOLEAN :
          IF hasBuyCount \/ autoButton \/ hasOrderArea
          THEN /\ canReadBuyCount' \in BOOLEAN
               /\ selectedGameCount' = 0
               /\ attempt' = 0
               /\ ppc' = "loop"
               /\ elapsed' = 0
          ELSE /\ elapsed' \in Waits(elapsed)
               /\ UNCHANGED <<ppc, canReadBuyCount, selectedGameCount, attempt>>
    /\ UNCHANGED <<pensionCount, pensionActed, dialogMessages, discVars,
                   beforeCount, data, lotNo, appended, badCodeSeen, subVars,
                   endVars>>
    /\ UNCHANGED <<rtVars, lottoVars, authVars, auxVars>>

\* mutant: a poll whose timeout has elapsed starts over
PollTimeoutStartsOver ==
    /\ ppc \in {"frameReady", "autoPoll", "countPoll", "textPoll"}
    /\ elapsed >= PollBudget
    /\ elapsed' = 0
    /\ UNCHANGED <<pensionCount, ppc, pensionActed, dialogMessages, discVars,
                   accVars, subVars, endVars>>
    /\ UNCHANGED <<rtVars, lottoVars, authVars, auxVars>>

\* the timeout of the running poll loop has elapsed and the loop throws
\* (part_000 280, 349, 263, 309)
PollTimeout ==
    /\ ppc \in {"frameReady", "autoPoll", "countPoll", "textPoll"}
    /\ elapsed >= PollBudget
    /\ PensionFail("timed out", NoDialog)
    /\ UNCHANGED <<pensionCount, pensionActed, dialogMessages, elapsed, discVars,
                   accVars, subVars>>
    /\ UNCHANGED <<rtVars, lottoVars, authVars, auxVars>>

\* frame.evaluate rejects (the frame was detached, the script threw) in
\* requestAutoLotNo, appendBuyNumber or the submit command; none is caught
EvaluateThrows ==
    /\ ppc \in {"autoPoll", "append", "submitted"}
    /\ PensionFail("evaluate", NoDialog)
    /\ UNCHANGED <<pensionCount, pensionActed, dialogMessages, elapsed, discVars,
                   accVars, subVars>>
    /\ UNCHANGED <<rtVars, lottoVars, authVars, auxVars>>

\* mutant: the result object is not cleared before doAuto is called
RequestAutoKeepsData ==
    /\ ppc = "loop"
    /\ attempt < pensionCount.n
    /\ beforeCount' \in IF canReadBuyCount THEN BuyCountReads ELSE {NullCount}
    /\ ppc' = "autoPoll"
    /\ elapsed' = 0
    /\ UNCHANGED <<pensionCount, pensionActed, dialogMessages, discVars,
                   canReadBuyCount, attempt, data, lotNo, selectedGameCount,
                   appended, badCodeSeen, subVars, endVars>>
    /\ UNCHANGED <<rtVars, lottoVars, authVars, auxVars>>

\* part_000 472-474 and requestAutoLotNo 313-327: the loop condition,
\* beforeCount, then the command that clears data and calls doAuto when the
\* frame defines it
RequestAuto ==
    /\ ppc = "loop"
    /\ attempt < pensionCount.n
    /\ beforeCount' \in IF canReadBuyCount THEN BuyCountReads ELSE {NullCount}
    /\ data' = NoData
    /\ ppc' = "autoPoll"
    /\ elapsed' = 0
    /\ UNCHANGED <<pensionCount, pensionActed, dialogMessages, discVars,
                   canReadBuyCount, attempt, lotNo, selectedGameCount, appended,
                   badCodeSeen, subVars, endVars>>
    /\ UNCHANGED <<rtVars, lottoVars, authVars, auxVars>>

\* mutant: a result code other than "100" is not an error, the poll goes on
AutoPollTickLenient ==
    /\ ppc = "autoPoll"
    /\ elapsed < PollBudget
    /\ \E d \in DataValues \cup {data} :
          /\ data' = d
          /\ badCodeSeen' = (badCodeSeen \/ (d.resultCode # "" /\ d.resultCode # "100"))
          /\ IF d.resultCode = "100" /\ IsSixDigits(d.selLotNo)
             THEN /\ lotNo' = d.selLotNo
                  /\ ppc' = "append"
                  /\ UNCHANGED elapsed
             ELSE /\ elapsed' \in Waits(elapsed)
                  /\ UNCHANGED <<ppc, lotNo>>
    /\ UNCHANGED <<pensionCount, pensionActed, dialogMessages, discVars,
                   canReadBuyCount, attempt, beforeCount, selectedGameCount,
                   appended, subVars, endVars>>
    /\ UNCHANGED <<rtVars, lottoVars, authVars, auxVars>>

\* requestAutoLotNo, part_000 328-347: one iteration of the poll.  The
\* portal may have written the result object since the last read.
AutoPollTick ==
    /\ ppc = "autoPoll"
    /\ elapsed < PollBudget
    /\ \E d \in DataValues \cup {data} :
          /\ data' = d
          /\ IF d.resultCode # "" /\ d.resultCode # "100"
             THEN /\ badCodeSeen' = TRUE
                  /\ PensionFail("auto number request failed", NoDialog)
                  /\ UNCHANGED <<lotNo, elapsed>>
             ELSE IF d.resultCode = "100" /\ IsSixDigits(d.selLotNo)
             THEN /\ lotNo' = d.selLotNo
                  /\ ppc' = "append"
                  /\ UNCHANGED <<badCodeSeen, elapsed, endVars>>
             ELSE /\ elapsed' \in Waits(elapsed)
                  /\ UNCHANGED <<ppc, lotNo, badCodeSeen, endVars>>
    /\ UNCHANGED <<pensionCount, pensionActed, dialogMessages, discVars,
                   canReadBuyCount, attempt, beforeCount, selectedGameCount,
                   appended, subVars>>
    /\ UNCHANGED <<rtVars, lottoVars, authVars, auxVars>>

\* mutant: the number is handed to addBuyDataOne twice
AppendBuyNumberTwice ==
    /\ ppc = "append"
    /\ \E hasAddBuyDataOne \in BOOLEAN :
          IF hasAddBuyDataOne
          THEN /\ appended' = appended + 2
               /\ ppc' = IF canReadBuyCount THEN "countPoll" ELSE "textPoll"
               /\ elapsed' = 0
               /\ UNCHANGED endVars
          ELSE /\ PensionFail("addBuyDataOne is not available", NoDialog)
               /\ UNCHANGED <<appended, elapsed>>
    /\ UNCHANGED <<pensionCount, pensionActed, dialogMessages, discVars,
                   canReadBuyCount, attempt, beforeCount, data, lotNo,
                   selectedGameCount, badCodeSeen, subVars>>
    /\ UNCHANGED <<rtVars, lottoVars, authVars, auxVars>>

\* appendBuyNumber, part_000 352-365, and the start of the wait that
\* follows it (476-481)
AppendBuyNumber ==
    /\ ppc = "append"
    /\ \E hasAddBuyDataOne \in BOOLEAN :
          IF hasAddBuyDataOne
          THEN /\ appended' = appended + 1
               /\ ppc' = IF canReadBuyCount THEN "countPoll" ELSE "textPoll"
               /\ elapsed' = 0
               /\ UNCHANGED endVars
          ELSE /\ PensionFail("addBuyDataOne is not available", NoDialog)
               /\ UNCHANGED <<appended, elapsed>>
    /\ UNCHANGED <<pensionCount, pensionActed, dialogMessages, discVars,
                   canReadBuyCount, attempt, beforeCount, data, lotNo,
                   selectedGameCount, badCodeSeen, subVars>>
    /\ UNCHANGED <<rtVars, lottoVars, authVars, auxVars>>

\* waitForBuyCountAtLeast(gameFrame, (beforeCount ?? 0) + 1, 15000),
\* part_000 251-264 and 477, one iteration; on return, selectedGameCount =
\* nextCount (478), attempt += 1, and the body's constants go out of scope
CountPollTick ==
    /\ ppc = "countPoll"
    /\ elapsed < PollBudget
    /\ \E currentCount \in BuyCountReads :
          LET minimumCount ==
                  (IF beforeCount = NullCount THEN 0 ELSE beforeCount) + 1
          IN IF currentCount = NullCount
             THEN /\ PensionFail("buy count input is no longer available",
                                 NoDialog)
                  /\ UNCHANGED <<selectedGameCount, attempt, elapsed,
                                 beforeCount, lotNo>>
             ELSE IF currentCount >= minimumCount
             THEN /\ selectedGameCount' = currentCount
                  /\ attempt' = attempt + 1
                  /\ beforeCount' = NullCount
                  /\ lotNo' = <<>>
                  /\ ppc' = "loop"
                  /\ UNCHANGED <<elapsed, endVars>>
             ELSE /\ elapsed' \in Waits(elapsed)
                  /\ UNCHANGED <<ppc, selectedGameCount, attempt, beforeCount,
                                 lotNo, endVars>>
    /\ UNCHANGED <<pensionCount, pensionActed, dialogMessages, discVars,
                   canReadBuyCount, data, appended, badCodeSeen, subVars>>
    /\ UNCHANGED <<rtVars, lottoVars, authVars, auxVars>>

\* waitForSelectedNumberAppeared, part_000 283-310, one iteration; on
\* return, selectedGameCount += 1 (481) and attempt += 1
TextPollTick ==
    /\ ppc = "textPoll"
    /\ elapsed < PollBudget
    /\ \E appeared \in BOOLEAN :
          IF appeared
          THEN /\ selectedGameCount' = selectedGameCount + 1
               /\ attempt' = attempt + 1
               /\ lotNo' = <<>>
               /\ ppc' = "loop"
               /\ UNCHANGED elapsed
          ELSE /\ elapsed' \in Waits(elapsed)
               /\ UNCHANGED <<ppc, selectedGameCount, attempt, lotNo>>
    /\ UNCHANGED <<pensionCount, pensionActed, dialogMessages, discVars,
                   canReadBuyCount, beforeCount, data, appended, badCodeSeen,
                   subVars, endVars>>
    /\ UNCHANGED <<rtVars, lottoVars, authVars, auxVars>>

\* mutant: the short count is not checked before the submit command
SubmitOrderUnchecked ==
    /\ ppc = "loop"
    /\ attempt >= pensionCount.n
    /\ \E currentCount \in IF canReadBuyCount THEN BuyCountReads ELSE {NullCount},
          hasDoOrderRequest \in BOOLEAN :
          /\ selectedGameCount' =
                IF currentCount = NullCount THEN selectedGameCount
                ELSE currentCount
          /\ submits' = IF hasDoOrderRequest THEN submits + 1 ELSE submits
          /\ submittedAt' = Len(dialogMessages)
          /\ ppc' = "submitted"
    /\ UNCHANGED <<pensionCount, pensionActed, dialogMessages, elapsed, discVars,
                   canReadBuyCount, attempt, beforeCount, data, lotNo, appended,
                   badCodeSeen, orderNo, endVars>>
    /\ UNCHANGED <<rtVars, lottoVars, authVars, auxVars>>

\* part_000 485-500: after the loop, the final count, the short-count
\* check and the submit command, which calls doOrderRequest when the frame
\* defines it
SubmitOrder ==
    /\ ppc = "loop"
    /\ attempt >= pensionCount.n
    /\ \E currentCount \in IF canReadBuyCount THEN BuyCountReads ELSE {NullCount},
          hasDoOrderRequest \in BOOLEAN :
          LET count == IF currentCount = NullCount THEN selectedGameCount
                       ELSE currentCount
          IN /\ selectedGameCount' = count
             /\ IF count < pensionCount.n
                THEN /\ PensionFail("selected count is smaller than requested",
                                    NoDialog)
                     /\ UNCHANGED <<submits, submittedAt>>
                ELSE /\ submits' = IF hasDoOrderRequest THEN submits + 1
                                   ELSE submits
                     /\ submittedAt' = Len(dialogMessages)
                     /\ ppc' = "submitted"
                     /\ UNCHANGED endVars
    /\ UNCHANGED <<pensionCount, pensionActed, dialogMessages, elapsed, discVars,
                   canReadBuyCount, attempt, beforeCount, data, lotNo, appended,
                   badCodeSeen, orderNo>>
    /\ UNCHANGED <<rtVars, lottoVars, authVars, auxVars>>

\* part_000 502-507: the submit command has resolved; the dialog buffer is
\* inspected, then waitForOrderNo starts
DialogCheck ==
    /\ ppc = "submitted"
    /\ LET failedDialog == hasHardFailureDialog(dialogMessages) IN
       IF failedDialog # NoDialog
       THEN /\ PensionFail("purchase failed", failedDialog)
            /\ UNCHANGED elapsed
       ELSE /\ ppc' = "orderPoll"
            /\ elapsed' = 0
            /\ UNCHANGED endVars
    /\ UNCHANGED <<pensionCount, pensionActed, dialogMessages, discVars, accVars,
                   subVars>>
    /\ UNCHANGED <<rtVars, lottoVars, authVars, auxVars>>

\* waitForOrderNo, part_000 367-382, one iteration; a non-empty text ends
\* the call with the result (508-515)
OrderPollTick ==
    /\ ppc = "orderPoll"
    /\ elapsed < PollBudget
    /\ \E normalized \in {"", "order-1"} :
          IF normalized # ""
          THEN /\ orderNo' = normalized
               /\ pensionOutcome' = "returned"
               /\ page' = "closed"
               /\ ppc' = "done"
               /\ UNCHANGED elapsed
          ELSE /\ elapsed' \in Waits(elapsed)
               /\ UNCHANGED <<orderNo, pensionOutcome, page, ppc>>
    /\ UNCHANGED <<pensionCount, pensionActed, dialogMessages, discVars, accVars,
                   submits, submittedAt, pensionError>>
    /\ UNCHANGED <<rtVars, lottoVars, authVars, auxVars>>

\* mutant: the order-id poll raises an error when its timeout has elapsed
OrderPollTimeoutThrows ==
    /\ ppc = "orderPoll"
    /\ elapsed >= PollBudget
    /\ PensionFail("timed out", NoDialog)
    /\ UNCHANGED <<pensionCount, pensionActed, dialogMessages, elapsed, discVars,
                   accVars, subVars>>
    /\ UNCHANGED <<rtVars, lottoVars, authVars, auxVars>>

\* waitForOrderNo 381: the timeout elapsed, null; the call returns (508-515)
OrderPollTimeout ==
    /\ ppc = "orderPoll"
    /\ elapsed >= PollBudget
    /\ orderNo' = Null
    /\ pensionOutcome' = "returned"
    /\ page' = "closed"
    /\ ppc' = "done"
    /\ UNCHANGED <<pensionCount, pensionActed, dialogMessages, elapsed, discVars,
                   accVars, submits, submittedAt, pensionError>>
    /\ UNCHANGED <<rtVars, lottoVars, authVars, auxVars>>

(***************************************************************************)
(* Discovery of buyPension720Auto (part_000 418-466) with every inspection *)
(* of the page's frames spelled out: inspectPension720Signals (135-159),   *)
(* the selection of waitForPension720GameFrame (170-205), findPensionFrame *)
(* (229-235) and the final error.  A part of an error message is a list of *)
(* entries and an entry is a list of words.  responseTexts and page.url()  *)
(* are texts of the portal and are left out of the message.                *)
(***************************************************************************)
NoLastError == <<>>
NoDiagnostic == [status |-> <<>>, lastUrl |-> <<>>, urls |-> <<>>,
                 lastError |-> <<>>]

\* part_000 419-423 and the locals of a poll that is not running
ScanIdle ==
    /\ inspecting = <<>>
    /\ frameSignals = <<>>
    /\ outstanding = 0
    /\ candidates = <<>>
    /\ selected = 0
    /\ gameResponseStatus = "unknown"
    /\ gameResponseUrl = ""
    /\ pensionLastError = NoLastError
    /\ diagnostic = NoDiagnostic

\* mutant: the addresses are taken from the end of the list
TargetUrlReversed(i) == targetUrls[Len(targetUrls) + 1 - i]

\* for (const targetUrl of targetUrls), part_000 425: the i-th address
TargetUrl(i) == targetUrls[i]

\* part_000 425-443: page.goto(targetUrl), whose rejection is caught and
\* kept in lastError, the status of the response, then findPensionFrame
ScanGoto ==
    /\ ppc = "goto"
    /\ \E gameResponse \in {"null", "200"} :
          /\ gameResponseUrl' = TargetUrl(stage)
          /\ navigated' = Append(navigated, TargetUrl(stage))
          /\ pensionLastError' =
                IF gameResponse = "null" THEN <<<<"goto", TargetUrl(stage)>>>>
                ELSE pensionLastError
          /\ gameResponseStatus' =
                IF gameResponse = "null" THEN "unknown" ELSE gameResponse
    /\ pensionActed' = TRUE
    /\ ppc' = "discover"
    /\ elapsed' = 0
    /\ triggeredTabView' = FALSE
    /\ tabViewCalls' = 0
    /\ frameSignals' = <<>>
    /\ candidates' = <<>>
    /\ UNCHANGED <<pensionCount, dialogMessages, stage, gameFrame, accVars,
                   subVars, endVars>>
    /\ UNCHANGED <<inspecting, outstanding, selected, diagnostic>>
    /\ UNCHANGED <<rtVars, lottoVars, authVars, detectVars, mainVars>>

\* openWithUiFallback, part_000 207-227 (called at 451 and 456), each of
\* its commands awaited in turn and every failure swallowed; then
\* findPensionFrame
ScanFallback ==
    /\ ppc = "fallback"
    /\ navigated' = Append(navigated, "base")
    /\ pensionActed' = TRUE
    /\ ppc' = "discover"
    /\ elapsed' = 0
    /\ triggeredTabView' = FALSE
    /\ tabViewCalls' = 0
    /\ frameSignals' = <<>>
    /\ candidates' = <<>>
    /\ UNCHANGED <<pensionCount, dialogMessages, stage, gameFrame, accVars,
                   subVars, endVars>>
    /\ UNCHANGED <<inspecting, outstanding, selected, gameResponseStatus,
                   gameResponseUrl, pensionLastError, diagnostic>>
    /\ UNCHANGED <<rtVars, lottoVars, authVars, detectVars, mainVars>>

\* part_000 175 (and 203): Promise.all(frames().map(inspectPension720Signals))
\* calls the function for every frame before any of the calls has finished;
\* each call reads frame.url() and suspends in findBuyCountLocator on one
\* locator.count() (135-137, 49-58)
InspectLocate ==
    /\ ppc = "discover"
    /\ \E n \in 1..MaxFrames :
          \E url \in [1..n -> BOOLEAN] :
             /\ inspecting' =
                   [i \in 1..n |-> [urlMatch |-> url[i], located |-> FALSE]]
             /\ outstanding' = n
    /\ ppc' = "locating"
    /\ frameSignals' = <<>>
    /\ candidates' = <<>>
    /\ UNCHANGED <<selected, gameResponseStatus, gameResponseUrl,
                   pensionLastError, diagnostic>>
    /\ UNCHANGED <<pensionCount, pensionActed, dialogMessages, elapsed,
                   discVars, accVars, subVars, endVars>>
    /\ UNCHANGED <<rtVars, lottoVars, authVars, detectVars, mainVars>>

\* the counts one inspection asks for at once, part_000 138-142: the
\* located input's when there is one, the auto button's, the order number's
CountCommands(f) == IF f.located THEN 3 ELSE 2

RECURSIVE SumCommands(_)
SumCommands(fs) ==
    IF fs = <<>> THEN 0 ELSE CountCommands(Head(fs)) + SumCommands(Tail(fs))

\* part_000 137-142: findBuyCountLocator has settled in every inspection
\* and each inspection issues its counts together (Promise.all)
InspectCount ==
    /\ ppc = "locating"
    /\ \E located \in [DOMAIN inspecting -> BOOLEAN] :
          LET fs == [i \in DOMAIN inspecting |->
                        [inspecting[i] EXCEPT !.located = located[i]]]
          IN /\ inspecting' = fs
             /\ outstanding' = SumCommands(fs)
    /\ ppc' = "counting"
    /\ UNCHANGED <<frameSignals, candidates, selected, gameResponseStatus,
                   gameResponseUrl, pensionLastError, diagnostic>>
    /\ UNCHANGED <<pensionCount, pensionActed, dialogMessages, elapsed,
                   discVars, accVars, subVars, endVars>>
    /\ UNCHANGED <<rtVars, lottoVars, authVars, detectVars, mainVars>>

\* what the counts of the running inspections can settle to: the input is
\* counted only where it was located
Readings ==
    LET counts ==
            {c \in [DOMAIN inspecting ->
                       [buyCntCount : 0..1, autoButtonCount : 0..1,
                        orderNoCount : 0..1]] :
                \A i \in DOMAIN inspecting :
                   ~inspecting[i].located => c[i].buyCntCount = 0}
    IN {[i \in DOMAIN inspecting |->
            [urlMatch |-> inspecting[i].urlMatch,
             buyCntCount |-> c[i].buyCntCount,
             autoButtonCount |-> c[i].autoButtonCount,
             orderNoCount |-> c[i].orderNoCount]] : c \in counts}

\* inspectPension720Signals, part_000 144-158: the signal of one frame
inspectPension720Signals(f) ==
    [urlMatch |-> f.urlMatch, score |-> Score(f),
     buyCntCount |-> f.buyCntCount, autoButtonCount |-> f.autoButtonCount,
     orderNoCount |-> f.orderNoCount]

\* summarizeFrames, part_000 161-168: one entry for every signal
summarizeFrames(signals) ==
    [i \in DOMAIN signals |->
        <<IF signals[i].urlMatch THEN "LP72 url" ELSE "other url",
          ToString(signals[i].score), ToString(signals[i].buyCntCount),
          ToString(signals[i].autoButtonCount),
          ToString(signals[i].orderNoCount)>>]

\* Array.prototype.filter keeps the order of the frames: the indices of a
\* set, ascending
RECURSIVE Ascending(_)
Ascending(S) ==
    IF S = {} THEN <<>>
    ELSE LET m == CHOOSE i \in S : \A j \in S : i <= j
         IN <<m>> \o Ascending(S \ {m})

\* mutant: an element goes before the elements of equal score
InsertByScoreBeforeTies(signals, sorted, i) ==
    LET before == {k \in 1..Len(sorted) :
                      signals[sorted[k]].score > signals[i].score}
    IN SubSeq(sorted, 1, Cardinality(before)) \o <<i>>
          \o SubSeq(sorted, Cardinality(before) + 1, Len(sorted))

\* candidates.sort((a, b) => b.score - a.score), part_000 182: the sort is
\* stable, an element goes behind every element whose score is not smaller
RECURSIVE InsertByScore(_, _, _)
InsertByScore(signals, sorted, i) ==
    IF sorted = <<>> THEN <<i>>
    ELSE IF signals[Head(sorted)].score >= signals[i].score
    THEN <<Head(sorted)>> \o InsertByScore(signals, Tail(sorted), i)
    ELSE <<i>> \o sorted

RECURSIVE sortByScore(_, _)
sortByScore(signals, c) ==
    IF c = <<>> THEN <<>>
    ELSE InsertByScore(signals, sortByScore(signals, SubSeq(c, 1, Len(c) - 1)),
                       c[Len(c)])

\* mutant: the tab switch is triggered on every tick without a candidate
NudgesAlways(flag) == TRUE

\* if (!triggeredTabView), part_000 187
Nudges(flag) == ~flag

\* waitForPension720GameFrame, part_000 174-200: the inspections of one
\* iteration settle; the rest of the iteration runs without suspending up
\* to the return or to the tab switch and the wait
DiscoverSelect ==
    /\ ppc = "counting"
    /\ elapsed < PollBudget
    /\ \E reading \in Readings :
          LET signals == [i \in DOMAIN reading |->
                             inspectPension720Signals(reading[i])]
              sorted == sortByScore(signals, Ascending(Candidates(signals)))
          IN /\ frameSignals' = signals
             /\ candidates' = sorted
             /\ IF Len(sorted) > 0
                THEN /\ selected' = sorted[1]
                     /\ gameFrame' = "frame"
                     /\ ppc' = "found"
                     /\ UNCHANGED <<elapsed, triggeredTabView, tabViewCalls>>
                ELSE /\ triggeredTabView' = TRUE
                     /\ tabViewCalls' = IF Nudges(triggeredTabView)
                                        THEN tabViewCalls + 1
                                        ELSE tabViewCalls
                     /\ elapsed' \in Waits(elapsed)
                     /\ ppc' = "discover"
                     /\ UNCHANGED <<selected, gameFrame>>
    /\ inspecting' = <<>>
    /\ outstanding' = 0
    /\ UNCHANGED <<gameResponseStatus, gameResponseUrl, pensionLastError,
                   diagnostic>>
    /\ UNCHANGED <<pensionCount, pensionActed, dialogMessages, stage,
                   navigated, accVars, subVars, endVars>>
    /\ UNCHANGED <<rtVars, lottoVars, authVars, detectVars, mainVars>>

\* part_000 203-204: the inspections made after the loop settle and the
\* poll throws an error that carries summarizeFrames of them; 229-235:
\* findPensionFrame catches it and returns null; 444-466: lastError and
\* the next address, the UI fallbacks, or the error of buyPension720Auto
DiscoverThrow ==
    /\ ppc = "counting"
    /\ elapsed >= PollBudget
    /\ \E reading \in Readings :
          frameSignals' = [i \in DOMAIN reading |->
                              inspectPension720Signals(reading[i])]
    /\ inspecting' = <<>>
    /\ outstanding' = 0
    /\ IF stage <= Len(targetUrls)
       THEN /\ pensionLastError' =
                  <<<<"frame not found on", TargetUrl(stage),
                      gameResponseStatus>>>>
            /\ stage' = stage + 1
            /\ ppc' = IF stage < Len(targetUrls) THEN "goto" ELSE "fallback"
            /\ UNCHANGED <<diagnostic, endVars>>
       ELSE IF stage < 6
       THEN /\ stage' = stage + 1
            /\ ppc' = "fallback"
            /\ UNCHANGED <<pensionLastError, diagnostic, endVars>>
       ELSE /\ diagnostic' =
                  [status |-> <<<<gameResponseStatus>>>>,
                   lastUrl |-> <<<<gameResponseUrl>>>>,
                   urls |-> [i \in DOMAIN targetUrls |-> <<targetUrls[i]>>],
                   lastError |-> pensionLastError]
            /\ PensionFail("frame not found after all fallback steps", NoDialog)
            /\ UNCHANGED <<stage, pensionLastError>>
    /\ UNCHANGED <<candidates, selected, gameResponseStatus, gameResponseUrl>>
    /\ UNCHANGED <<pensionCount, pensionActed, dialogMessages, elapsed,
                   navigated, triggeredTabView, tabViewCalls, gameFrame,
                   accVars, subVars>>
    /\ UNCHANGED <<rtVars, lottoVars, authVars, detectVars, mainVars>>

(***************************************************************************)
(* hasHardFailureDialog (part_000 384-396) called on its own with any list *)
(* of captured dialog texts.                                               *)
(***************************************************************************)
\* texts of dialogs: empty, blank, without a keyword, with a keyword, with
\* and without surrounding whitespace
MessageTexts ==
    {<<>>, <<" ">>, <<"w">>, <<" ", "w">>, <<"silpae">>,
     <<" ", "oryu", " ">>, <<"w", "login">>, <<"bujok", " ", "w">>}

MessageLists == UNION {[1..n -> MessageTexts] : n \in 0..MaxDialogs}

DetectIdle ==
    /\ hpc = "idle"
    /\ dialogArg = <<>>
    /\ dialogResult = NoDialog

DetectStart ==
    /\ hpc = "call"
    /\ dialogArg \in MessageLists
    /\ dialogResult = NoDialog

\* the call, as at part_000 502
DetectCall ==
    /\ hpc = "call"
    /\ dialogResult' = hasHardFailureDialog(dialogArg)
    /\ hpc' = "done"
    /\ UNCHANGED dialogArg
    /\ UNCHANGED <<rtVars, lottoVars, pensionVars, authVars, scanVars,
                   mainVars>>

(***************************************************************************)
(* The buy entry point, index.ts (part_002): main (77-165) and run         *)
(* (167-182).  An environment variable is either unset or a text, a list   *)
(* of tokens like the dialog texts: " " is a whitespace character and a    *)
(* word is one token.  loginToDhlottery, the two purchases, getUserBalance *)
(* and storageState are calls that return or throw.  Launching and closing  *)
(* the browser and its context are operations of the local browser and,    *)
(* like appending to the summary file, do not fail.                        *)
(***************************************************************************)
Unset == [set |-> FALSE, text |-> <<>>]
EnvText(t) == [set |-> TRUE, text |-> t]

\* envValue ?? fallback
OrDefault(envValue, fallback) ==
    IF envValue.set THEN envValue.text ELSE fallback

\* String.prototype.toUpperCase on a text
UpperCased(t) == [i \in DOMAIN t |-> ToUpperCase(t[i])]

\* values of LOTTO_BUY_MODE
ModeInputs ==
    {Unset}
        \cup {EnvText(t) : t \in {<<>>, <<"STOP">>, <<" ", "none", " ">>,
                                  <<"LOTTO_ONLY">>, <<"lotto">>,
                                  <<"PENSION_ONLY">>, <<" ", "Pension">>,
                                  <<"BOTH">>, <<"all">>, <<"w">>,
                                  <<"STOP", " ", "w">>}}

\* values of LOTTO_COUNT and PENSION_COUNT: unset, or a text of which
\* Number() makes the number [int, n]
CountEnvInputs ==
    {[set |-> FALSE, int |-> TRUE, n |-> 0]}
        \cup {[set |-> TRUE, int |-> c.int, n |-> c.n] : c \in CountInputs}

\* values of LOTTO_USER_ID and LOTTO_USER_PASSWORD
CredentialInputs == {Unset, EnvText(<<" ">>), EnvText(<<" ", "w">>)}

\* part_002 24-33
aliasMap ==
    [w \in {"STOP", "NONE", "LOTTO_ONLY", "LOTTO", "PENSION_ONLY", "PENSION",
            "BOTH", "ALL"} |->
        CASE w \in {"STOP", "NONE"} -> "STOP"
          [] w \in {"LOTTO_ONLY", "LOTTO"} -> "LOTTO_ONLY"
          [] w \in {"PENSION_ONLY", "PENSION"} -> "PENSION_ONLY"
          [] OTHER -> "BOTH"]

\* readBuyModeEnv, part_002 22-43; Undefined stands for the thrown error
readBuyModeEnv(envValue) ==
    LET normalized == UpperCased(Trim(OrDefault(envValue, <<"LOTTO_ONLY">>)))
    IN IF Len(normalized) = 1 /\ normalized[1] \in DOMAIN aliasMap
       THEN aliasMap[normalized[1]]
       ELSE Undefined

\* process.env.X ?? "5" handed to Number(), part_002 86-87 and 46
ParsedCount(raw, fallback) ==
    IF raw.set THEN [int |-> raw.int, n |-> raw.n]
    ELSE [int |-> TRUE, n |-> fallback]

\* process.env.X?.trim() is falsy, part_002 83-84 and 89
Missing(envValue) == ~envValue.set \/ Trim(envValue.text) = <<>>

\* the messages of the errors of main
ModeMessage == "LOTTO_BUY_MODE must be one of STOP | LOTTO_ONLY | PENSION_ONLY | BOTH"
LottoCountMessage == "LOTTO_COUNT must be an integer between 1 and 5."
PensionCountMessage == "PENSION_COUNT must be an integer between 1 and 5."
MissingMessage == "Missing LOTTO_USER_ID or LOTTO_USER_PASSWORD in environment variables."
NoMainError == "none"

\* isConfigError, part_002 60-67: the messages that include one of the
\* three phrases
isConfigError(message) ==
    message \in {MissingMessage, ModeMessage, LottoCountMessage,
                 PensionCountMessage}

\* the error main throws on its environment (85-91), or NoMainError
ConfigErrorOf(e) ==
    IF readBuyModeEnv(e.LOTTO_BUY_MODE) = Undefined THEN ModeMessage
    ELSE IF ~ValidCount(ParsedCount(e.LOTTO_COUNT, 5)) THEN LottoCountMessage
    ELSE IF ~ValidCount(ParsedCount(e.PENSION_COUNT, 1))
    THEN PensionCountMessage
    ELSE IF Missing(e.LOTTO_USER_ID) \/ Missing(e.LOTTO_USER_PASSWORD)
    THEN MissingMessage
    ELSE NoMainError

\* const buyMode, part_002 85
buyMode == readBuyModeEnv(env.LOTTO_BUY_MODE)

MainIdle ==
    /\ mpc = "idle"
    /\ env = Unset
    /\ browser = "none"
    /\ context = "none"
    /\ mainCalls = <<>>
    /\ summary = <<>>
    /\ mainError = NoMainError
    /\ mainOutcome = "idle"

MainStart ==
    /\ mpc = "validate"
    /\ env \in [LOTTO_BUY_MODE : ModeInputs,
                LOTTO_COUNT : CountEnvInputs,
                PENSION_COUNT : CountEnvInputs,
                LOTTO_USER_ID : CredentialInputs,
                LOTTO_USER_PASSWORD : CredentialInputs]
    /\ browser = "none"
    /\ context = "none"
    /\ mainCalls = <<>>
    /\ summary = <<>>
    /\ mainError = NoMainError
    /\ mainOutcome = "running"

\* mutant: an error of the call is swallowed and main goes on
MainCallContinues(op, next) ==
    \E ok \in BOOLEAN :
        /\ mainCalls' = Append(mainCalls, [op |-> op, ok |-> ok])
        /\ mpc' = next
        /\ UNCHANGED mainError

\* an awaited call of the try block: it returns, or it throws and control
\* goes to the finally block
MainCall(op, next) ==
    \E ok \in BOOLEAN :
        /\ mainCalls' = Append(mainCalls, [op |-> op, ok |-> ok])
        /\ IF ok
           THEN mpc' = next /\ UNCHANGED mainError
           ELSE mpc' = "finally" /\ mainError' = op

\* mutant: the browser is launched before the environment is read
MainValidateAfterLaunch ==
    /\ mpc = "validate"
    /\ browser' = "open"
    /\ IF ConfigErrorOf(env) # NoMainError
       THEN mainError' = ConfigErrorOf(env) /\ mpc' = "catch"
       ELSE mpc' = "launch" /\ UNCHANGED mainError
    /\ UNCHANGED <<env, context, mainCalls, summary, mainOutcome>>
    /\ UNCHANGED <<rtVars, lottoVars, pensionVars, authVars, scanVars,
                   detectVars>>

\* main, part_002 83-94: the environment is read and checked
MainValidate ==
    /\ mpc = "validate"
    /\ IF ConfigErrorOf(env) # NoMainError
       THEN mainError' = ConfigErrorOf(env) /\ mpc' = "catch"
       ELSE mpc' = "launch" /\ UNCHANGED mainError
    /\ UNCHANGED <<env, browser, context, mainCalls, summary, mainOutcome>>
    /\ UNCHANGED <<rtVars, lottoVars, pensionVars, authVars, scanVars,
                   detectVars>>

\* part_002 95: chromium.launch
MainLaunch ==
    /\ mpc = "launch"
    /\ browser' = "open"
    /\ mpc' = "newContext"
    /\ UNCHANGED <<env, context, mainCalls, summary, mainError, mainOutcome>>
    /\ UNCHANGED <<rtVars, lottoVars, pensionVars, authVars, scanVars,
                   detectVars>>

\* part_002 96: browser.newContext, before the try block
MainNewContext ==
    /\ mpc = "newContext"
    /\ context' = "open"
    /\ mpc' = "try"
    /\ UNCHANGED <<env, browser, mainCalls, summary, mainError, mainOutcome>>
    /\ UNCHANGED <<rtVars, lottoVars, pensionVars, authVars, scanVars,
                   detectVars>>

\* part_002 99-115: STOP mode, the summary and return
MainStop ==
    /\ mpc = "try"
    /\ buyMode = "STOP"
    /\ summary' = Append(summary, "SKIPPED")
    /\ mpc' = "finally"
    /\ UNCHANGED <<env, browser, context, mainCalls, mainError, mainOutcome>>
    /\ UNCHANGED <<rtVars, lottoVars, pensionVars, authVars, scanVars,
                   detectVars>>

\* mutant: login is called in STOP mode as well
MainLoginAlways ==
    /\ mpc = "try"
    /\ MainCall("login", "lotto")
    /\ UNCHANGED <<env, browser, context, summary, mainOutcome>>
    /\ UNCHANGED <<rtVars, lottoVars, pensionVars, authVars, scanVars,
                   detectVars>>

\* part_002 117: loginToDhlottery
MainLogin ==
    /\ mpc = "try"
    /\ buyMode # "STOP"
    /\ MainCall("login", "lotto")
    /\ UNCHANGED <<env, browser, context, summary, mainOutcome>>
    /\ UNCHANGED <<rtVars, lottoVars, pensionVars, authVars, scanVars,
                   detectVars>>

\* mutant: the lotto purchase is made in every mode
MainLottoAlways ==
    /\ mpc = "lotto"
    /\ MainCall("lotto", "pension")
    /\ UNCHANGED <<env, browser, context, summary, mainOutcome>>
    /\ UNCHANGED <<rtVars, lottoVars, pensionVars, authVars, scanVars,
                   detectVars>>

\* part_002 121-123: buyLotto645Auto
MainLotto ==
    /\ mpc = "lotto"
    /\ IF buyMode = "LOTTO_ONLY" \/ buyMode = "BOTH"
       THEN MainCall("lotto", "pension")
       ELSE mpc' = "pension" /\ UNCHANGED <<mainCalls, mainError>>
    /\ UNCHANGED <<env, browser, context, summary, mainOutcome>>
    /\ UNCHANGED <<rtVars, lottoVars, pensionVars, authVars, scanVars,
                   detectVars>>

\* part_002 125-127: buyPension720Auto
MainPension ==
    /\ mpc = "pension"
    /\ IF buyMode = "PENSION_ONLY" \/ buyMode = "BOTH"
       THEN MainCall("pension", "balance")
       ELSE mpc' = "balance" /\ UNCHANGED <<mainCalls, mainError>>
    /\ UNCHANGED <<env, browser, context, summary, mainOutcome>>
    /\ UNCHANGED <<rtVars, lottoVars, pensionVars, authVars, scanVars,
                   detectVars>>

\* part_002 129: getUserBalance
MainBalance ==
    /\ mpc = "balance"
    /\ MainCall("balance", "store")
    /\ UNCHANGED <<env, browser, context, summary, mainOutcome>>
    /\ UNCHANGED <<rtVars, lottoVars, pensionVars, authVars, scanVars,
                   detectVars>>

\* part_002 131-132: mkdir and context.storageState
MainStore ==
    /\ mpc = "store"
    /\ MainCall("storageState", "summary")
    /\ UNCHANGED <<env, browser, context, summary, mainOutcome>>
    /\ UNCHANGED <<rtVars, lottoVars, pensionVars, authVars, scanVars,
                   detectVars>>

\* part_002 134-160: the output, the summary and return
MainSummary ==
    /\ mpc = "summary"
    /\ summary' = Append(summary, "SUCCESS")
    /\ mpc' = "finally"
    /\ UNCHANGED <<env, browser, context, mainCalls, mainError, mainOutcome>>
    /\ UNCHANGED <<rtVars, lottoVars, pensionVars, authVars, scanVars,
                   detectVars>>

\* part_002 161-164: finally, context.close() and browser.close(); main
\* then returns or rethrows
MainFinally ==
    /\ mpc = "finally"
    /\ context' = "closed"
    /\ browser' = "closed"
    /\ IF mainError = NoMainError
       THEN mpc' = "done" /\ mainOutcome' = "returned"
       ELSE mpc' = "catch" /\ UNCHANGED mainOutcome
    /\ UNCHANGED <<env, mainCalls, summary, mainError>>
    /\ UNCHANGED <<rtVars, lottoVars, pensionVars, authVars, scanVars,
                   detectVars>>

\* run, part_002 167-182: the catch block writes the status and rethrows
RunCatch ==
    /\ mpc = "catch"
    /\ summary' =
          Append(summary, IF isConfigError(mainError) THEN "FAILED (config)"
                          ELSE "FAILED (other)")
    /\ mainOutcome' = "error"
    /\ mpc' = "done"
    /\ UNCHANGED <<env, browser, context, mainCalls, mainError>>
    /\ UNCHANGED <<rtVars, lottoVars, pensionVars, authVars, scanVars,
                   detectVars>>

\* part_002 126, the pension purchase of main spelled out: the call of
\* buyPension720Auto with the count main has read
RunPensionCall ==
    /\ mpc = "pension"
    /\ buyMode = "PENSION_ONLY" \/ buyMode = "BOTH"
    /\ ppc = "idle"
    /\ pensionCount' = ParsedCount(env.PENSION_COUNT, 1)
    /\ ppc' = "validate"
    /\ pensionOutcome' = "running"
    /\ mpc' = "inPension"
    /\ UNCHANGED <<page, pensionActed, dialogMessages, elapsed, discVars,
                   accVars, subVars, pensionError>>
    /\ UNCHANGED <<env, browser, context, mainCalls, summary, mainError,
                   mainOutcome>>
    /\ UNCHANGED <<rtVars, lottoVars, authVars, scanVars, detectVars>>

\* part_002 126: buyPension720Auto has returned or thrown
RunPensionReturn ==
    /\ mpc = "inPension"
    /\ ppc = "done"
    /\ LET ok == pensionOutcome = "returned" IN
          /\ mainCalls' = Append(mainCalls, [op |-> "pension", ok |-> ok])
          /\ IF ok
             THEN mpc' = "balance" /\ UNCHANGED mainError
             ELSE mpc' = "finally" /\ mainError' = "pension"
    /\ UNCHANGED <<env, browser, context, summary, mainOutcome>>
    /\ UNCHANGED <<rtVars, lottoVars, pensionVars, authVars, scanVars,
                   detectVars>>

(***************************************************************************)
(* The weekly check entry point, check-weekly.ts: readTargetEnv (29-35),   *)
(* readRangeEnv (41-62), main (151-206) and run (208-223), over the        *)
(* variables of an entry point.                                            *)
(***************************************************************************)
\* values of CHECK_TARGET: the two documented names (README 119-122), the
\* two product codes in either case, other texts
TargetInputs ==
    {Unset}
        \cup {EnvText(t) : t \in {<<>>, <<"lotto365">>, <<"pension">>,
                                  <<"LO40">>, <<"LP72">>, <<"lo40">>,
                                  <<" ", "lp72", " ">>, <<"w">>}}

\* values of CHECK_FROM_YMD and CHECK_TO_YMD
YmdInputs ==
    {Unset, EnvText(<<" ">>), EnvText(<<"20260201">>),
     EnvText(<<" ", "20260208">>), EnvText(<<"w">>)}

\* readTargetEnv, check-weekly.ts 29-35; Undefined stands for the thrown
\* error
readTargetEnv(envValue) ==
    LET raw == UpperCased(Trim(OrDefault(envValue, <<>>)))
    IN IF raw = <<"LO40">> \/ raw = <<"LP72">> THEN raw[1] ELSE Undefined

\* isValidYmd, check-weekly.ts 37-39, on the texts of YmdInputs
isValidYmd(value) == value \in {<<"20260201">>, <<"20260208">>}

TargetMessage == "CHECK_TARGET must be LO40 or LP72."
TogetherMessage == "CHECK_FROM_YMD and CHECK_TO_YMD must be provided together."
FormatMessage == "CHECK_FROM_YMD and CHECK_TO_YMD must be in YYYYMMDD format."
OrderMessage == "CHECK_FROM_YMD must be less than or equal to CHECK_TO_YMD."

\* readRangeEnv, check-weekly.ts 41-62: the error it throws, or NoMainError
RangeErrorOf(from, to) ==
    LET fromRaw == IF from.set THEN Trim(from.text) ELSE <<>>
        toRaw == IF to.set THEN Trim(to.text) ELSE <<>>
    IN IF fromRaw = <<>> /\ toRaw = <<>> THEN NoMainError
       ELSE IF fromRaw = <<>> \/ toRaw = <<>> THEN TogetherMessage
       ELSE IF ~isValidYmd(fromRaw) \/ ~isValidYmd(toRaw) THEN FormatMessage
       ELSE IF fromRaw = <<"20260208">> /\ toRaw = <<"20260201">>
       THEN OrderMessage
       ELSE NoMainError

\* isConfigError of check-weekly.ts, 79-87
checkIsConfigError(message) ==
    message \in {TargetMessage, MissingMessage, TogetherMessage,
                 FormatMessage, OrderMessage}

\* the error main throws on its environment (152-161), or NoMainError
CheckErrorOf(e) ==
    IF readTargetEnv(e.CHECK_TARGET) = Undefined THEN TargetMessage
    ELSE IF Missing(e.LOTTO_USER_ID) \/ Missing(e.LOTTO_USER_PASSWORD)
    THEN MissingMessage
    ELSE RangeErrorOf(e.CHECK_FROM_YMD, e.CHECK_TO_YMD)

CheckStart ==
    /\ mpc = "validate"
    /\ env \in [CHECK_TARGET : TargetInputs,
                LOTTO_USER_ID : CredentialInputs,
                LOTTO_USER_PASSWORD : CredentialInputs,
                CHECK_FROM_YMD : YmdInputs,
                CHECK_TO_YMD : YmdInputs]
    /\ browser = "none"
    /\ context = "none"
    /\ mainCalls = <<>>
    /\ summary = <<>>
    /\ mainError = NoMainError
    /\ mainOutcome = "running"

\* main, check-weekly.ts 152-161: the environment is read and checked
CheckValidate ==
    /\ mpc = "validate"
    /\ IF CheckErrorOf(env) # NoMainError
       THEN mainError' = CheckErrorOf(env) /\ mpc' = "catch"
       ELSE mpc' = "launch" /\ UNCHANGED mainError
    /\ UNCHANGED <<env, browser, context, mainCalls, summary, mainOutcome>>
    /\ UNCHANGED <<rtVars, lottoVars, pensionVars, authVars, scanVars,
                   detectVars>>

\* check-weekly.ts 163-164: chromium.launch and browser.newContext
CheckLaunch ==
    /\ mpc = "launch"
    /\ browser' = "open"
    /\ context' = "open"
    /\ mpc' = "try"
    /\ UNCHANGED <<env, mainCalls, summary, mainError, mainOutcome>>
    /\ UNCHANGED <<rtVars, lottoVars, pensionVars, authVars, scanVars,
                   detectVars>>

\* check-weekly.ts 166: loginToDhlottery
CheckLogin ==
    /\ mpc = "try"
    /\ MainCall("login", "ledger")
    /\ UNCHANGED <<env, browser, context, summary, mainOutcome>>
    /\ UNCHANGED <<rtVars, lottoVars, pensionVars, authVars, scanVars,
                   detectVars>>

\* check-weekly.ts 167-201: selectMyLotteryledger, then the summary, whose
\* status depends on the list (buildSummaryMarkdown 116-126)
CheckLedger ==
    /\ mpc = "ledger"
    /\ \E ok \in BOOLEAN, status \in {"SKIPPED", "SUCCESS"} :
          /\ mainCalls' = Append(mainCalls, [op |-> "ledger", ok |-> ok])
          /\ mpc' = "finally"
          /\ IF ok
             THEN summary' = Append(summary, status) /\ UNCHANGED mainError
             ELSE mainError' = "ledger" /\ UNCHANGED summary
    /\ UNCHANGED <<env, browser, context, mainOutcome>>
    /\ UNCHANGED <<rtVars, lottoVars, pensionVars, authVars, scanVars,
                   detectVars>>

\* check-weekly.ts 202-205: finally, context.close() and browser.close()
CheckFinally ==
    /\ mpc = "finally"
    /\ context' = "closed"
    /\ browser' = "closed"
    /\ IF mainError = NoMainError
       THEN mpc' = "done" /\ mainOutcome' = "returned"
       ELSE mpc' = "catch" /\ UNCHANGED mainOutcome
    /\ UNCHANGED <<env, mainCalls, summary, mainError>>
    /\ UNCHANGED <<rtVars, lottoVars, pensionVars, authVars, scanVars,
                   detectVars>>

\* run, check-weekly.ts 208-223: the catch block writes the status and
\* rethrows
CheckCatch ==
    /\ mpc = "catch"
    /\ summary' =
          Append(summary, IF checkIsConfigError(mainError)
                          THEN "FAILED (config)" ELSE "FAILED (other)")
    /\ mainOutcome' = "error"
    /\ mpc' = "done"
    /\ UNCHANGED <<env, browser, context, mainCalls, mainError>>
    /\ UNCHANGED <<rtVars, lottoVars, pensionVars, authVars, scanVars,
                   detectVars>>

AuxIdle == ScanIdle /\ DetectIdle /\ MainIdle

(***************************************************************************)
(* submitLogin, auth.ts 197-245: the closure run by withRetries(.., 5,     *)
(* 2000), with getRsaKey (105-130) and submitLoginViaPageFlow (132-169).   *)
(* The portal answers each request nondeterministically.  The cookie jar   *)
(* and page.close() are operations of the local browser and do not fail.   *)
(***************************************************************************)
\* maxRetries of the call site, auth.ts 242
LoginMaxRetries == 5
NoLoginError == "none"

LoginIdle ==
    /\ apc = "idle"
    /\ loginRt = NoFrame
    /\ steps = <<>>
    /\ primary = "none"
    /\ key = 0
    /\ keyLog = <<>>
    /\ keyRequests = 0
    /\ posts = <<>>
    /\ authFailure = FALSE
    /\ normalizations = <<>>
    /\ loginOutcome = "idle"
    /\ loginError = NoLoginError

LoginStart ==
    /\ apc = "warm1"
    /\ loginRt = RetryFrame(LoginMaxRetries)
    /\ steps = <<>>
    /\ primary = "none"
    /\ key = 0
    /\ keyLog = <<>>
    /\ keyRequests = 0
    /\ posts = <<>>
    /\ authFailure = FALSE
    /\ normalizations = <<>>
    /\ loginOutcome = "running"
    /\ loginError = NoLoginError

\* the closure rejects with error e / resolves
Rejects(e) == [ok |-> FALSE, v |-> e]
Resolves == [ok |-> TRUE, v |-> Undefined]

\* the closure ends with res and withRetries handles it: another attempt
\* starts with fresh locals, or submitLogin throws, or it returns.  st and
\* pr are the attempt's steps and primary result at its end.
AttemptEnds(res, st, pr) ==
    LET r == withRetries(loginRt, res) IN
    /\ loginRt' = r
    /\ CASE r.status = "calling" ->
              /\ apc' = "warm1"
              /\ steps' = <<>>
              /\ primary' = "none"
              /\ key' = 0
              /\ UNCHANGED <<loginOutcome, loginError>>
         [] r.status = "thrown" ->
              /\ apc' = "done"
              /\ steps' = st
              /\ primary' = pr
              /\ loginOutcome' = "error"
              /\ loginError' = r.currentError
              /\ UNCHANGED key
         [] OTHER ->
              /\ apc' = "done"
              /\ steps' = st
              /\ primary' = pr
              /\ loginOutcome' = "returned"
              /\ UNCHANGED <<key, loginError>>

\* mutant: the first priming navigation is not issued
LoginWarm1Skipped ==
    /\ apc = "warm1"
    /\ loginRt.status = "calling"
    /\ apc' = "warm2"
    /\ UNCHANGED <<loginRt, steps, primary, key, loginOutcome, loginError>>
    /\ UNCHANGED <<keyLog, keyRequests, posts, authFailure, normalizations>>
    /\ UNCHANGED <<rtVars, lottoVars, pensionVars, auxVars, jarVars, balanceVars>>

\* auth.ts 200-201: GET baseUrl/
LoginWarm1 ==
    /\ apc = "warm1"
    /\ loginRt.status = "calling"
    /\ \E result \in {"throws", "done"} :
          IF result = "throws"
          THEN AttemptEnds(Rejects("network"), steps, primary)
          ELSE /\ apc' = "warm2"
               /\ steps' = Append(steps, "warm1")
               /\ UNCHANGED <<loginRt, primary, key, loginOutcome, loginError>>
    /\ UNCHANGED <<keyLog, keyRequests, posts, authFailure, normalizations>>
    /\ UNCHANGED <<rtVars, lottoVars, pensionVars, auxVars, jarVars, balanceVars>>

\* auth.ts 202: GET baseUrl/user.do?method=login
LoginWarm2 ==
    /\ apc = "warm2"
    /\ \E result \in {"throws", "done"} :
          IF result = "throws"
          THEN AttemptEnds(Rejects("network"), steps, primary)
          ELSE /\ apc' = "key"
               /\ steps' = Append(steps, "warm2")
               /\ UNCHANGED <<loginRt, primary, key, loginOutcome, loginError>>
    /\ UNCHANGED <<keyLog, keyRequests, posts, authFailure, normalizations>>
    /\ UNCHANGED <<rtVars, lottoVars, pensionVars, auxVars, jarVars, balanceVars>>

\* getRsaKey, auth.ts 105-130 (called at 204)
LoginGetRsaKey ==
    /\ apc = "key"
    /\ keyRequests' = keyRequests + 1
    /\ \E result \in {"throws", "notOk", "missing", "key"} :
          CASE result = "throws" ->
                 /\ AttemptEnds(Rejects("network"), steps, primary)
                 /\ UNCHANGED <<keyLog, authFailure>>
            [] result = "notOk" ->
                 /\ AttemptEnds(Rejects("RSA modulus request failed"),
                                steps, primary)
                 /\ UNCHANGED <<keyLog, authFailure>>
            [] result = "missing" ->
                 /\ AttemptEnds(Rejects("RSA modulus/publicExponent not found"),
                                steps, primary)
                 /\ authFailure' = TRUE
                 /\ UNCHANGED keyLog
            [] OTHER ->
                 /\ keyLog' = Append(keyLog, loginRt.attempt)
                 /\ key' = Len(keyLog) + 1
                 /\ steps' = Append(steps, "key")
                 /\ apc' = "post"
                 /\ UNCHANGED <<loginRt, primary, authFailure, loginOutcome,
                                loginError>>
    /\ UNCHANGED <<posts, normalizations>>
    /\ UNCHANGED <<rtVars, lottoVars, pensionVars, auxVars, jarVars, balanceVars>>

\* mutant: the key material of the first fetch is kept for later attempts
KeyForPostCached(held, log) == IF log # <<>> THEN 1 ELSE held

\* auth.ts 204-206: the credentials are encrypted with the modulus and
\* exponent this attempt destructured from getRsaKey
KeyForPost(held, log) == held

\* mutant: every embedded error message leads to the page flow
MismatchAny(embedded) == embedded \in {"mismatch", "other"}

\* auth.ts 230: errorMessageMatch[1].includes(the mismatch text)
Mismatch(embedded) == embedded = "mismatch"

\* auth.ts 205-237: encryption, the POST to securityLoginCheck.do, the
\* status, the embedded errorMessage (an empty one counts as none)
LoginPost ==
    /\ apc = "post"
    /\ \E result \in {"encryptThrows", "throws", "notOk", "body"},
          embedded \in {"none", "empty", "mismatch", "other"} :
          /\ result # "body" => embedded = "none"
          /\ posts' = IF result = "encryptThrows" THEN posts
                      ELSE Append(posts, [attempt |-> loginRt.attempt,
                                          key |-> KeyForPost(key, keyLog)])
          /\ CASE result = "encryptThrows" ->
                    /\ AttemptEnds(Rejects("encrypt"), steps, primary)
                    /\ UNCHANGED authFailure
               [] result = "throws" ->
                    /\ AttemptEnds(Rejects("network"), steps, primary)
                    /\ UNCHANGED authFailure
               [] result = "notOk" ->
                    /\ AttemptEnds(Rejects("securityLoginCheck failed"),
                                   Append(steps, "post"), primary)
                    /\ UNCHANGED authFailure
               [] OTHER ->
                    IF embedded \in {"none", "empty"}
                    THEN /\ primary' = "ok"
                         /\ steps' = Append(steps, "post")
                         /\ apc' = "normalize"
                         /\ UNCHANGED <<loginRt, key, authFailure,
                                        loginOutcome, loginError>>
                    ELSE IF Mismatch(embedded)
                    THEN /\ primary' = IF embedded = "mismatch"
                                       THEN "mismatch" ELSE "other"
                         /\ steps' = steps \o <<"post", "fallback">>
                         /\ apc' = "fbGoto"
                         /\ UNCHANGED <<loginRt, key, authFailure,
                                        loginOutcome, loginError>>
                    ELSE /\ AttemptEnds(Rejects("Login failed"),
                                        Append(steps, "post"), "other")
                         /\ authFailure' = TRUE
    /\ UNCHANGED <<keyLog, keyRequests, normalizations>>
    /\ UNCHANGED <<rtVars, lottoVars, pensionVars, auxVars, jarVars, balanceVars>>

\* auth.ts 239: normalizeAuthCookies on the primary path
LoginNormalize ==
    /\ apc = "normalize"
    /\ normalizations' = Append(normalizations, [attempt |-> loginRt.attempt,
                                         path |-> "primary",
                                         primary |-> primary])
    /\ steps' = Append(steps, "normalize")
    /\ apc' = "main"
    /\ UNCHANGED <<loginRt, primary, key, keyLog, keyRequests, posts,
                   authFailure, loginOutcome, loginError>>
    /\ UNCHANGED <<rtVars, lottoVars, pensionVars, auxVars, jarVars, balanceVars>>

\* auth.ts 240-241: GET baseUrl/main, its failure swallowed; the closure
\* resolves
LoginMain ==
    /\ apc = "main"
    /\ AttemptEnds(Resolves, Append(steps, "main"), primary)
    /\ UNCHANGED <<keyLog, keyRequests, posts, authFailure, normalizations>>
    /\ UNCHANGED <<rtVars, lottoVars, pensionVars, auxVars, jarVars, balanceVars>>

\* submitLoginViaPageFlow, auth.ts 133-146: newPage (done when the flow was
\* entered), goto the login page, assertNotBlocked, the status
FallbackGoto ==
    /\ apc = "fbGoto"
    /\ \E result \in {"throws", "blocked", "notOk", "ok"} :
          CASE result = "throws" ->
                 AttemptEnds(Rejects("navigation"), steps, primary)
            [] result = "blocked" ->
                 AttemptEnds(Rejects("blocked by dhlottery site protection"),
                             steps, primary)
            [] result = "notOk" ->
                 AttemptEnds(Rejects("Fallback login page request failed"),
                             steps, primary)
            [] OTHER ->
                 /\ apc' = "fbFill"
                 /\ UNCHANGED <<loginRt, steps, primary, key, loginOutcome,
                                loginError>>
    /\ UNCHANGED <<keyLog, keyRequests, posts, authFailure, normalizations>>
    /\ UNCHANGED <<rtVars, lottoVars, pensionVars, auxVars, jarVars, balanceVars>>

\* auth.ts 148-155: wait for the two inputs, fill them, click #btnLogin
FallbackFill ==
    /\ apc = "fbFill"
    /\ \E result \in {"timeout", "filled"} :
          IF result = "timeout"
          THEN AttemptEnds(Rejects("timeout"), steps, primary)
          ELSE /\ apc' = "fbResult"
               /\ steps' = Append(steps, "fill")
               /\ UNCHANGED <<loginRt, primary, key, loginOutcome, loginError>>
    /\ UNCHANGED <<keyLog, keyRequests, posts, authFailure, normalizations>>
    /\ UNCHANGED <<rtVars, lottoVars, pensionVars, auxVars, jarVars, balanceVars>>

\* mutant: after the page flow the closure goes on with the primary path
FallbackResultNoReturn ==
    /\ apc = "fbResult"
    /\ normalizations' = Append(normalizations, [attempt |-> loginRt.attempt,
                                         path |-> "fallback",
                                         primary |-> primary])
    /\ steps' = Append(steps, "normalize")
    /\ apc' = "normalize"
    /\ UNCHANGED <<loginRt, primary, key, keyLog, keyRequests, posts,
                   authFailure, loginOutcome, loginError>>
    /\ UNCHANGED <<rtVars, lottoVars, pensionVars, auxVars, jarVars, balanceVars>>

\* auth.ts 158-168 and 233-234: assertNotBlocked, the embedded error of the
\* resulting page, normalizeAuthCookies, page.close(); the closure returns
FallbackResult ==
    /\ apc = "fbResult"
    /\ \E result \in {"blocked", "error", "ok"} :
          CASE result = "blocked" ->
                 /\ AttemptEnds(Rejects("blocked by dhlottery site protection"),
                                steps, primary)
                 /\ UNCHANGED normalizations
            [] result = "error" ->
                 /\ AttemptEnds(Rejects("Login failed"), steps, primary)
                 /\ UNCHANGED normalizations
            [] OTHER ->
                 /\ normalizations' =
                       Append(normalizations, [attempt |-> loginRt.attempt,
                                           path |-> "fallback",
                                           primary |-> primary])
                 /\ AttemptEnds(Resolves, Append(steps, "normalize"), primary)
    /\ UNCHANGED <<keyLog, keyRequests, posts, authFailure>>
    /\ UNCHANGED <<rtVars, lottoVars, pensionVars, auxVars, jarVars, balanceVars>>

(***************************************************************************)
(* normalizeAuthCookies, auth.ts 171-195, over a cookie jar.  A cookie is  *)
(* its name, domain, path and value; the jar holds at most one cookie per  *)
(* name, domain and path, and addCookies replaces the cookie of the same   *)
(* three or adds one.                                                      *)
(***************************************************************************)
targetCookieNames == {"JSESSIONID", "DHJSESSIONID", "WMONID"}
CookieNames == targetCookieNames \cup {"_ga"}
CookieDomains == {"www.dhlottery.co.kr", ".dhlottery.co.kr"}
CookiePaths == {"/", "/mypage"}
CookieValues == {"a", "b"}
Cookies ==
    [name : CookieNames, domain : CookieDomains, path : CookiePaths,
     value : CookieValues]

SameCookie(c, d) ==
    c.name = d.name /\ c.domain = d.domain /\ c.path = d.path

\* context.cookies(): the jars of at most MaxCookies cookies
Jars ==
    {j \in UNION {[1..n -> Cookies] : n \in 0..MaxCookies} :
        \A i, k \in 1..Len(j) : SameCookie(j[i], j[k]) => i = k}

\* Array.prototype.filter
RECURSIVE Filter(_, _)
Filter(seq, names) ==
    IF seq = <<>> THEN <<>>
    ELSE IF Head(seq).name \in names
    THEN <<Head(seq)>> \o Filter(Tail(seq), names)
    ELSE Filter(Tail(seq), names)

\* mutant: every cookie is rewritten, whatever its name
normalizedCookiesAll(cookies) ==
    [i \in 1..Len(cookies) |->
        [cookies[i] EXCEPT !.domain = ".dhlottery.co.kr", !.path = "/"]]

\* auth.ts 177-183: filter by name, then map to the parent domain and "/"
normalizedCookies(cookies) ==
    LET named == Filter(cookies, targetCookieNames) IN
    [i \in 1..Len(named) |->
        [named[i] EXCEPT !.domain = ".dhlottery.co.kr", !.path = "/"]]

\* context.addCookies, auth.ts 186
RECURSIVE addCookies(_, _)
addCookies(cookies, new) ==
    IF new = <<>> THEN cookies
    ELSE LET c == Head(new)
             rest == SelectSeq(cookies, LAMBDA d : ~SameCookie(d, c))
         IN addCookies(Append(rest, c), Tail(new))

JarIdle ==
    /\ jpc = "idle"
    /\ jar = <<>>
    /\ jar0 = <<>>
    /\ added = <<>>

JarStart ==
    /\ jpc = "call"
    /\ jar \in Jars
    /\ jar0 = jar
    /\ added = <<>>

NormalizeAuthCookies ==
    /\ jpc = "call"
    /\ LET cookies == jar
           new == normalizedCookies(cookies)
       IN IF Len(new) > 0
          THEN /\ jar' = addCookies(jar, new)
               /\ added' = Append(added, new)
          ELSE UNCHANGED <<jar, added>>
    /\ jpc' = "done"
    /\ UNCHANGED jar0
    /\ UNCHANGED <<rtVars, lottoVars, pensionVars, auxVars, loginVars, balanceVars>>

(***************************************************************************)
(* getUserBalance, auth.ts 247-305: its own loop of three attempts.  Each  *)
(* attempt's request yields one of BalanceYields.                          *)
(***************************************************************************)
\* the loop bound, auth.ts 250
BalanceMaxAttempts == 3

\* what the selectUserMndp.do request of one attempt yields: the request
\* rejects; a status that is not ok; an ok body that is empty after trim,
\* starts with "<", is no JSON text (with or without "401" in the text the
\* SyntaxError quotes), is the JSON text null, or is another JSON value
\* whose totalAmt is or is not a finite number
BalanceYields ==
    {"throws", "401", "500", "empty", "html", "unparseable",
     "unparseable401", "null", "amount", "notFinite"}

\* the error thrown inside the try block (268-284), or NoValue
ErrorOf(yield) ==
    CASE yield = "throws" -> "network"
      [] yield = "401" -> "Balance check unauthorized (401)."
      [] yield = "500" -> "Balance check request failed. status=500"
      [] yield = "empty" -> "Balance check returned an empty response."
      [] yield = "html" -> "Balance check returned HTML."
      [] yield = "unparseable" -> "SyntaxError"
      [] yield = "unparseable401" -> "SyntaxError 401"
      [] yield = "null" -> "TypeError"
      [] OTHER -> NoValue

\* the value returned at 288 or 290, or NoValue
ValueOf(yield) ==
    CASE yield = "amount" -> "toLocaleString"
      [] yield = "notFinite" -> "0"
      [] OTHER -> NoValue

\* mutant: no message counts as naming the status
Includes401Never(error) == FALSE

\* lastError.message.includes("401"), auth.ts 299
Includes401(error) ==
    error \in {"Balance check unauthorized (401).", "SyntaxError 401"}

\* attempt < 3, auth.ts 293
BalanceSleeps(a) == a < BalanceMaxAttempts

\* mutant: the JSON value null is read like an object without data
BalanceThrowsOnNull(yield) == ErrorOf(yield) # NoValue /\ yield # "null"

\* the try block throws
BalanceThrows(yield) == ErrorOf(yield) # NoValue

NoBalanceResult == [kind |-> "none", cause |-> NoValue]

BalanceIdle ==
    /\ bpc = "idle"
    /\ bAttempt = 0
    /\ lastError = Undefined
    /\ bLog = <<>>
    /\ bSleeps = 0
    /\ balanceOutcome = "idle"
    /\ balanceResult = NoBalanceResult

BalanceStart ==
    /\ bpc = "home"
    /\ bAttempt = 1
    /\ lastError = Undefined
    /\ bLog = <<>>
    /\ bSleeps = 0
    /\ balanceOutcome = "running"
    /\ balanceResult = NoBalanceResult

\* auth.ts 252: GET mypage/home, its failure swallowed
BalanceHome ==
    /\ bpc = "home"
    /\ bpc' = "request"
    /\ UNCHANGED <<bAttempt, lastError, bLog, bSleeps, balanceOutcome,
                   balanceResult>>
    /\ UNCHANGED <<rtVars, lottoVars, pensionVars, auxVars, loginVars, jarVars>>

\* auth.ts 254-296: the request, the checks of the response, the return;
\* the catch block with its delay; attempt += 1 and the loop condition
BalanceRequest ==
    /\ bpc = "request"
    /\ \E yield \in BalanceYields :
          /\ bLog' = Append(bLog, yield)
          /\ IF BalanceThrows(yield)
             THEN /\ lastError' = ErrorOf(yield)
                  /\ bSleeps' = IF BalanceSleeps(bAttempt) THEN bSleeps + 1
                                ELSE bSleeps
                  /\ bAttempt' = bAttempt + 1
                  /\ bpc' = IF bAttempt + 1 <= BalanceMaxAttempts
                            THEN "home" ELSE "after"
                  /\ UNCHANGED <<balanceOutcome, balanceResult>>
             ELSE /\ balanceOutcome' = "returned"
                  /\ balanceResult' = [kind |-> "value", cause |-> ValueOf(yield)]
                  /\ bpc' = "done"
                  /\ UNCHANGED <<bAttempt, lastError, bSleeps>>
    /\ UNCHANGED <<rtVars, lottoVars, pensionVars, auxVars, loginVars, jarVars>>

\* auth.ts 299-304: the error after the loop
BalanceThrow ==
    /\ bpc = "after"
    /\ balanceOutcome' = "error"
    /\ balanceResult' =
          IF Includes401(lastError)
          THEN [kind |-> "Balance check unauthorized (401)", cause |-> NoValue]
          ELSE [kind |-> "Balance check failed after retries",
                cause |-> lastError]
    /\ bpc' = "done"
    /\ UNCHANGED <<bAttempt, lastError, bLog, bSleeps>>
    /\ UNCHANGED <<rtVars, lottoVars, pensionVars, auxVars, loginVars, jarVars>>

AuthIdle == LoginIdle /\ JarIdle /\ BalanceIdle

(***************************************************************************)
(* Specifications: one call of one function each.                          *)
(***************************************************************************)
InitRetry == RetryStart /\ LottoIdle /\ PensionIdle /\ AuthIdle /\ AuxIdle
NextRetry == RetryInvoke
SpecRetry == InitRetry /\ [][NextRetry]_vars

InitLotto == RetryIdle /\ LottoStart /\ PensionIdle /\ AuthIdle /\ AuxIdle
NextLotto ==
    \/ LottoValidate
    \/ ReadyRequest
    \/ GamePageRequest
    \/ GetCurrentRound
    \/ ExecBuyRequest
    \/ LottoCheckResponse
SpecLotto == InitLotto /\ [][NextLotto]_vars

InitPension ==
    RetryIdle /\ LottoIdle /\ PensionStart /\ AuthIdle /\ AuxIdle
NextPension ==
    \/ PortalDialog
    \/ PensionValidate
    \/ PensionGoto
    \/ PensionFallback
    \/ DiscoverTick
    \/ DiscoverTimeout
    \/ DiscoveryDone
    \/ FrameReadyTick
    \/ PollTimeout
    \/ EvaluateThrows
    \/ RequestAuto
    \/ AutoPollTick
    \/ AppendBuyNumber
    \/ CountPollTick
    \/ TextPollTick
    \/ SubmitOrder
    \/ DialogCheck
    \/ OrderPollTick
    \/ OrderPollTimeout
SpecPension == InitPension /\ [][NextPension]_vars

InitLogin ==
    /\ RetryIdle /\ LottoIdle /\ PensionIdle
    /\ LoginStart /\ JarIdle /\ BalanceIdle
    /\ AuxIdle
NextLogin ==
    \/ LoginWarm1
    \/ LoginWarm2
    \/ LoginGetRsaKey
    \/ LoginPost
    \/ LoginNormalize
    \/ LoginMain
    \/ FallbackGoto
    \/ FallbackFill
    \/ FallbackResult
SpecLogin == InitLogin /\ [][NextLogin]_vars

InitCookies ==
    /\ RetryIdle /\ LottoIdle /\ PensionIdle
    /\ LoginIdle /\ JarStart /\ BalanceIdle
    /\ AuxIdle
NextCookies == NormalizeAuthCookies
SpecCookies == InitCookies /\ [][NextCookies]_vars

InitBalance ==
    /\ RetryIdle /\ LottoIdle /\ PensionIdle
    /\ LoginIdle /\ JarIdle /\ BalanceStart
    /\ AuxIdle
NextBalance ==
    \/ BalanceHome
    \/ BalanceRequest
    \/ BalanceThrow
SpecBalance == InitBalance /\ [][NextBalance]_vars
\* every request of the probe ends (the request timeout) and every delay
\* ends, so the loop keeps taking steps
SpecBalanceLive == SpecBalance /\ WF_vars(NextBalance)

\* one call of either buy function
InitBuy ==
    /\ RetryIdle
    /\ AuthIdle
    /\ AuxIdle
    /\ \/ LottoStart /\ PensionIdle
       \/ LottoIdle /\ PensionStart
NextBuy == NextLotto \/ NextPension
SpecBuy == InitBuy /\ [][NextBuy]_vars

\* the accumulating purchase under fair scheduling: a command of the page
\* settles or rejects, and a wait ends
SpecPensionLive == SpecPension /\ WF_vars(NextPension)

\* discovery of one call of buyPension720Auto, up to the frame or the
\* error; discovery does not read the requested count
InitDiscovery ==
    /\ RetryIdle /\ LottoIdle /\ AuthIdle /\ AuxIdle
    /\ PensionStart
    /\ pensionCount = [int |-> TRUE, n |-> 1]
NextDiscovery ==
    \/ PensionValidate
    \/ ScanGoto
    \/ ScanFallback
    \/ InspectLocate
    \/ InspectCount
    \/ DiscoverSelect
    \/ DiscoverThrow
SpecDiscovery == InitDiscovery /\ [][NextDiscovery]_vars

\* one call of hasHardFailureDialog
\* one run of the buy entry point on any environment
InitMain ==
    /\ RetryIdle /\ LottoIdle /\ PensionIdle /\ AuthIdle
    /\ ScanIdle /\ DetectIdle /\ MainStart
NextMain ==
    \/ MainValidate
    \/ MainLaunch
    \/ MainNewContext
    \/ MainStop
    \/ MainLogin
    \/ MainLotto
    \/ MainPension
    \/ MainBalance
    \/ MainStore
    \/ MainSummary
    \/ MainFinally
    \/ RunCatch
SpecMain == InitMain /\ [][NextMain]_vars

\* one run of the weekly check entry point on any environment
InitCheck ==
    /\ RetryIdle /\ LottoIdle /\ PensionIdle /\ AuthIdle
    /\ ScanIdle /\ DetectIdle /\ CheckStart
NextCheck ==
    \/ CheckValidate
    \/ CheckLaunch
    \/ CheckLogin
    \/ CheckLedger
    \/ CheckFinally
    \/ CheckCatch
SpecCheck == InitCheck /\ [][NextCheck]_vars

\* one buy run in a mode with a pension purchase, buyPension720Auto
\* running inside main
InitRun ==
    /\ InitMain
    /\ env.LOTTO_BUY_MODE \in {EnvText(<<" ", "Pension">>), EnvText(<<"BOTH">>)}
    /\ env.LOTTO_COUNT = [set |-> FALSE, int |-> TRUE, n |-> 0]
    /\ env.PENSION_COUNT \in {[set |-> FALSE, int |-> TRUE, n |-> 0],
                              [set |-> TRUE, int |-> TRUE, n |-> 2]}
    /\ env.LOTTO_USER_ID = EnvText(<<" ", "w">>)
    /\ env.LOTTO_USER_PASSWORD = EnvText(<<" ", "w">>)
NextRun ==
    \/ MainValidate
    \/ MainLaunch
    \/ MainNewContext
    \/ MainLogin
    \/ MainLotto
    \/ RunPensionCall
    \/ NextPension
    \/ RunPensionReturn
    \/ MainBalance
    \/ MainStore
    \/ MainSummary
    \/ MainFinally
    \/ RunCatch
SpecRun == InitRun /\ [][NextRun]_vars

InitDetect ==
    /\ RetryIdle /\ LottoIdle /\ PensionIdle /\ AuthIdle
    /\ ScanIdle /\ DetectStart /\ MainIdle
NextDetect == DetectCall
SpecDetect == InitDetect /\ [][NextDetect]_vars

(***************************************************************************)
(* Properties.                                                             *)
(***************************************************************************)

\* C1: buyPension720Auto never returns a result whose selectedGameCount is
\* smaller than the requested count (a count in 1..5): it returns with
\* selectedGameCount >= requestedGameCount or raises an error.
C1_NeverReturnsShortCount ==
    pensionOutcome = "returned" =>
        /\ ValidCount(pensionCount)
        /\ selectedGameCount >= pensionCount.n

\* C1 witness: a call for five games returned, the count read from BUY_CNT
C1_ReturnedFive ==
    /\ pensionOutcome = "returned"
    /\ pensionCount.n = 5
    /\ canReadBuyCount
    /\ selectedGameCount = 5

\* C2 (as claimed): every call that returns a result has invoked
\* doOrderRequest exactly once.
C2_SubmittedExactlyOnce ==
    pensionOutcome = "returned" => submits = 1

\* C3 (as claimed): within one buyLotto645Auto call the execBuy request is
\* sent at most once.
C3_SentAtMostOnce == Len(sentForms) <= 1

\* C3, the double effect: the first attempt reached the server and was
\* rejected on the client side, the second one was answered; the portal
\* received two purchases and the call returned a result
C3_SentTwiceBoughtTwice ==
    /\ Len(sentForms) = 2
    /\ purchases = 2
    /\ lottoOutcome = "returned"

\* C4 (as claimed): no two submission attempts of one call send the same
\* readiness token.
C4_FreshTokenPerAttempt ==
    \A i, j \in 1..Len(sentForms) :
        i # j => sentForms[i].direct # sentForms[j].direct

\* C5 (as claimed): a failure-keyword dialog raised during or after the
\* submit trigger makes the call raise an error; no result is returned.
C5_LateFailureDialogRaises ==
    (pensionOutcome = "returned" /\ submits = 1) =>
        \A i \in (submittedAt + 1)..Len(dialogMessages) :
            hasHardFailureDialog(<<dialogMessages[i]>>) = NoDialog

\* C6: when a random-number request reports a result code other than "100",
\* the call raises an error and doOrderRequest is never invoked.
C6_BadCodeMeansNoSubmit ==
    badCodeSeen =>
        /\ pensionOutcome = "error"
        /\ pensionError.kind = "auto number request failed"
        /\ submits = 0

\* C6 witness: of two requested games, the second request reports the code
C6_SecondRequestBadCode ==
    /\ badCodeSeen
    /\ pensionCount.n = 2
    /\ attempt = 1
    /\ appended = 1

\* C7: a requested count that is not an integer in 1..5 makes either buy
\* call raise an error before any network request, page creation or
\* navigation or frame command.
C7_InvalidCountFailsFirst ==
    /\ (lpc # "idle" /\ ~ValidCount(lottoCount)) =>
          /\ lpc \in {"validate", "done"}
          /\ lottoNet = 0
          /\ sentForms = <<>>
          /\ lpc = "done" => lottoOutcome = "error"
    /\ (ppc # "idle" /\ ~ValidCount(pensionCount)) =>
          /\ ppc \in {"validate", "done"}
          /\ page = "none"
          /\ ~pensionActed
          /\ navigated = <<>>
          /\ ppc = "done" => pensionOutcome = "error"

\* C7 witness: the pension call was given a number that is not an integer
C7_NonIntegerRejected ==
    /\ ppc = "done"
    /\ ~pensionCount.int
    /\ pensionOutcome = "error"
    /\ page = "none"

C9_ParamListsFirstSlots ==
    \A k \in 1..Len(sentForms) :
        LET param == sentForms[k].param
            N == lottoCount.n
        IN /\ N \in 1..5
           /\ Len(param) = N
           /\ \A i \in 1..N : param[i].alpabet = <<"A", "B", "C", "D", "E">>[i]
           /\ \A i, j \in 1..N : i # j => param[i].alpabet # param[j].alpabet

\* C9 witness: a form for five games was sent
C9_FiveSlotsSent ==
    /\ sentForms # <<>>
    /\ lottoCount.n = 5
    /\ Len(sentForms[1].param) = 5

\* C10: withRetries invokes action at most maxAttempts times, stops at the
\* first invocation that succeeds and returns that invocation's value.
C10_StopsAtFirstSuccess ==
    /\ Len(rtLog) <= rt.maxRetries
    /\ \A i \in 1..Len(rtLog) :
          rtLog[i].ok =>
              /\ i = Len(rtLog)
              /\ rt.status = "returned"
              /\ rt.value = rtLog[i].v
    /\ rt.status = "returned" => (rtLog # <<>> /\ rtLog[Len(rtLog)].ok)

\* C10 witness: two failures, then a success whose value is returned
C10_ThirdAttemptReturned ==
    /\ rt.status = "returned"
    /\ Len(rtLog) = 3
    /\ rt.value = "v2"

\* C11: withRetries sleeps once after each failed attempt that is followed
\* by another attempt and not otherwise: k - 1 delays when the k-th attempt
\* is the first to succeed, maxAttempts - 1 delays when all attempts fail.
C11_DelaysBetweenAttemptsOnly ==
    LET failed == {i \in 1..Len(rtLog) : ~rtLog[i].ok} IN
    /\ rt.status = "calling" => rt.sleeps = Cardinality(failed)
    /\ rt.status = "returned" => rt.sleeps = Len(rtLog) - 1
    /\ (rt.status = "thrown" /\ rt.maxRetries >= 1) =>
          /\ Len(rtLog) = rt.maxRetries
          /\ rt.sleeps = rt.maxRetries - 1

\* C11 witness: maxAttempts = 3, two failures and a success, two delays
C11_TwoDelaysThenSuccess ==
    /\ rt.maxRetries = 3
    /\ rt.status = "returned"
    /\ Len(rtLog) = 3
    /\ rt.sleeps = 2

\* C12: when every invocation fails, withRetries throws the error of the
\* last invocation, as it was raised.
C12_ThrowsLastError ==
    (rt.status = "thrown" /\ rt.maxRetries >= 1) =>
        /\ Len(rtLog) = rt.maxRetries
        /\ \A i \in 1..Len(rtLog) : ~rtLog[i].ok
        /\ rt.currentError = rtLog[Len(rtLog)].v

\* C12 witness: two attempts failed with different errors, the second is
\* the one thrown
C12_SecondErrorThrown ==
    /\ rt.status = "thrown"
    /\ Len(rtLog) = 2
    /\ rtLog[1].v = "e1"
    /\ rtLog[2].v = "e2"
    /\ rt.currentError = "e2"

\* C13 (as claimed): a missing modulus or exponent, or an embedded error
\* message other than the credential mismatch, ends submitLogin with that
\* error after a single attempt; the key endpoint and the login-check
\* endpoint are each contacted at most once in the call.
C13_AuthFailureNotRetried ==
    authFailure =>
        /\ loginOutcome = "error"
        /\ keyRequests <= 1
        /\ Len(posts) <= 1

C15_KeyFetchedInSameAttempt ==
    \A i \in 1..Len(posts) :
        /\ posts[i].key \in 1..Len(keyLog)
        /\ keyLog[posts[i].key] = posts[i].attempt

\* C15 witness: two attempts posted credentials, each with its own key
C15_TwoAttemptsTwoKeys ==
    /\ Len(posts) = 2
    /\ posts[1] = [attempt |-> 1, key |-> 1]
    /\ posts[2] = [attempt |-> 2, key |-> 2]

\* C16: in every attempt both priming navigations complete before the key
\* request, and the key request before the credential POST and before any
\* submission of the fallback form.
C16_WarmupBeforeCredentials ==
    /\ \A i \in 1..Len(steps) :
          /\ steps[i] = "key" =>
                (i = 3 /\ steps[1] = "warm1" /\ steps[2] = "warm2")
          /\ steps[i] = "post" => (i = 4 /\ steps[3] = "key")
          /\ steps[i] = "fill" => (i > 4 /\ steps[4] = "post")
    /\ (keyLog # <<>> /\ keyLog[Len(keyLog)] = loginRt.attempt) =>
          (Len(steps) >= 3 /\ SubSeq(steps, 1, 3) = <<"warm1", "warm2", "key">>)
    /\ (posts # <<>> /\ posts[Len(posts)].attempt = loginRt.attempt) =>
          (Len(steps) >= 3 /\ SubSeq(steps, 1, 3) = <<"warm1", "warm2", "key">>)
    /\ keyRequests > 0 =>
          (loginRt.attempt > 1 \/ (Len(steps) >= 2 /\ steps[2] = "warm2"))

\* C16 witness: the second attempt has posted its credentials
C16_SecondAttemptPosted ==
    /\ loginRt.attempt = 2
    /\ Len(posts) = 2
    /\ posts[2].attempt = 2
    /\ steps = <<"warm1", "warm2", "key", "post">>

\* C17: a submitLogin call that returns has run normalizeAuthCookies exactly
\* once, after the successful submission of the primary path or of the
\* page flow; no attempt whose submission failed runs it.
C17_NormalizedExactlyOnce ==
    /\ Len(normalizations) <= 1
    /\ loginOutcome = "returned" => Len(normalizations) = 1
    /\ loginOutcome = "error" => normalizations = <<>>
    /\ \A i \in 1..Len(normalizations) :
          LET n == normalizations[i] IN
          /\ n.attempt = loginRt.attempt
          /\ \/ n.path = "primary" /\ n.primary = "ok"
             \/ n.path = "fallback" /\ n.primary = "mismatch"

\* C17 witness: a failed attempt, then a login through the page flow with
\* its one normalization
C17_FallbackNormalizedOnce ==
    /\ loginOutcome = "returned"
    /\ normalizations =
          <<[attempt |-> 2, path |-> "fallback", primary |-> "mismatch"]>>

\* C18: normalizeAuthCookies hands addCookies only cookies named JSESSIONID,
\* DHJSESSIONID or WMONID, with the parent domain and path "/", so that each
\* of them is in the jar under the parent domain; every other cookie keeps
\* its domain and path, and a jar without a named cookie is left unchanged.
C18_OnlyNamedCookiesRewritten ==
    jpc = "done" =>
        LET old == {jar0[i] : i \in 1..Len(jar0)}
            new == {jar[i] : i \in 1..Len(jar)}
            named == {"JSESSIONID", "DHJSESSIONID", "WMONID"}
        IN /\ {c \in new : c.name \notin named}
                 = {c \in old : c.name \notin named}
           /\ \A c \in new \ old :
                 /\ c.name \in named
                 /\ c.domain = ".dhlottery.co.kr"
                 /\ c.path = "/"
                 /\ \E d \in old : d.name = c.name /\ d.value = c.value
           /\ \A d \in old :
                 d.name \in named =>
                     \E c \in new : /\ c.name = d.name
                                    /\ c.domain = ".dhlottery.co.kr"
                                    /\ c.path = "/"
           /\ \A k \in 1..Len(added) : \A i \in 1..Len(added[k]) :
                 /\ added[k][i].name \in named
                 /\ added[k][i].domain = ".dhlottery.co.kr"
                 /\ added[k][i].path = "/"
           /\ (\A d \in old : d.name \notin named) =>
                 (jar = jar0 /\ added = <<>>)

\* C18 witness: a session cookie and another cookie, both of the www host
\* and a sub-path; the call has changed the jar
C18_SessionCookieBesideOther ==
    /\ jpc = "done"
    /\ jar0 = <<[name |-> "JSESSIONID", domain |-> "www.dhlottery.co.kr",
                 path |-> "/mypage", value |-> "a"],
                [name |-> "_ga", domain |-> "www.dhlottery.co.kr",
                 path |-> "/mypage", value |-> "b"]>>
    /\ jar # jar0

\* C19: in getUserBalance a 401 status yields an error distinct in kind
\* from the one a 500 status yields, and a 500 status is retried.
C19_UnauthorizedDistinctFromTransient ==
    /\ balanceOutcome = "error" =>
          /\ Len(bLog) = 3
          /\ bLog[3] = "401" =>
                balanceResult.kind = "Balance check unauthorized (401)"
          /\ bLog[3] = "500" =>
                /\ balanceResult.kind = "Balance check failed after retries"
                /\ balanceResult.cause
                      = "Balance check request failed. status=500"
    /\ \A i \in 1..Len(bLog) :
          (bLog[i] = "500" /\ i < 3) =>
              (Len(bLog) > i \/ bpc \in {"home", "request"})
    /\ (bLog # <<>> /\ bLog[Len(bLog)] = "401" /\ bpc # "done") =>
          lastError # "Balance check request failed. status=500"

\* C19 witness: a 500 was retried and the probe ended on a 401
C19_RetriedThenUnauthorized ==
    /\ balanceOutcome = "error"
    /\ bLog = <<"500", "401", "401">>
    /\ balanceResult.kind = "Balance check unauthorized (401)"

\* C20 (as claimed): getUserBalance returns on the first attempt that
\* yields a parseable, non-empty, non-markup body.
C20_ReturnsOnFirstParseableBody ==
    \A i \in 1..Len(bLog) :
        bLog[i] \in {"null", "amount", "notFinite"} =>
            (i = Len(bLog) /\ balanceOutcome = "returned")

\* C20 (amended): getUserBalance makes at most 3 attempts with at most 2
\* delays, fewer attempts than the 5 of the login; it returns on the first
\* attempt whose body is non-empty, is no markup and parses to a JSON value
\* other than null (the body null is handled as a failed attempt), and it
\* always ends with a value or an error.
C20_BoundedProbeTerminates ==
    /\ [](/\ Len(bLog) <= 3
          /\ bSleeps <= 2
          /\ BalanceMaxAttempts < LoginMaxRetries
          /\ \A i \in 1..Len(bLog) :
                /\ bLog[i] \in {"amount", "notFinite"} =>
                      (i = Len(bLog) /\ balanceOutcome = "returned")
                /\ bLog[i] \notin {"amount", "notFinite"} =>
                      (i < Len(bLog) \/ balanceOutcome # "returned"))
    /\ <>(bpc = "done" /\ balanceOutcome \in {"returned", "error"})

\* C20 witness: the body null and a 500 were retried, the third attempt
\* returned
C20_NullRetriedThenReturned ==
    /\ balanceOutcome = "returned"
    /\ bLog = <<"null", "500", "amount">>
    /\ bSleeps = 2

\* the candidates that qualify among the signals of one tick: those over
\* the strict threshold when there is one, else those over the relaxed one
QualifyingOf(signals) ==
    LET strict == {i \in DOMAIN signals :
                      \/ signals[i].buyCntCount > 0
                      \/ signals[i].autoButtonCount > 0
                      \/ signals[i].score >= 14}
    IN IF strict # {} THEN strict
       ELSE {i \in DOMAIN signals : signals[i].score >= 4}

\* the signals in state are those of a tick of the poll
AfterTick == frameSignals # <<>> /\ ppc \in {"found", "discover"}

\* two signals that differ only in the presence of the primary control
DifferOnlyInControl(a, b) ==
    /\ a.buyCntCount > 0
    /\ b.buyCntCount = 0
    /\ a.urlMatch = b.urlMatch
    /\ (a.autoButtonCount > 0) = (b.autoButtonCount > 0)
    /\ (a.orderNoCount > 0) = (b.orderNoCount > 0)

\* C21: the score of every inspected sub-document is 4*urlMatch +
\* 10*primaryControl + 10*actionTrigger + 2*resultAnchor, and of two
\* sub-documents that differ only in the presence of the primary quantity
\* control the one with the control scores at least as high as the other.
C21_ScoreMonotonicInControl ==
    /\ \A i \in DOMAIN frameSignals :
          frameSignals[i].score =
              4 * (IF frameSignals[i].urlMatch THEN 1 ELSE 0)
              + 10 * (IF frameSignals[i].buyCntCount > 0 THEN 1 ELSE 0)
              + 10 * (IF frameSignals[i].autoButtonCount > 0 THEN 1 ELSE 0)
              + 2 * (IF frameSignals[i].orderNoCount > 0 THEN 1 ELSE 0)
    /\ \A i, j \in DOMAIN frameSignals :
          DifferOnlyInControl(frameSignals[i], frameSignals[j])
              => frameSignals[i].score >= frameSignals[j].score

\* C21 witness: one inspection scored two sub-documents that differ only in
\* the primary control.
C21_PairInspected ==
    /\ ppc = "found"
    /\ Len(frameSignals) = 2
    /\ DifferOnlyInControl(frameSignals[2], frameSignals[1])
    /\ frameSignals[1].score = 4
    /\ frameSignals[2].score = 14

\* C22: a poll tick with at least one qualifying candidate returns exactly
\* one sub-document, a qualifying one of maximal score, and among the
\* qualifying ones of that score the first in the page's order; a tick
\* that goes on polling had no qualifying candidate.
C22_SelectsFirstOfHighestScore ==
    /\ (AfterTick /\ QualifyingOf(frameSignals) # {})
          => /\ ppc = "found"
             /\ gameFrame = "frame"
             /\ selected \in QualifyingOf(frameSignals)
             /\ \A j \in QualifyingOf(frameSignals) :
                   /\ frameSignals[j].score <= frameSignals[selected].score
                   /\ frameSignals[j].score = frameSignals[selected].score
                         => selected <= j
    /\ ppc = "found" => QualifyingOf(frameSignals) # {}

\* C22 witness: two qualifying candidates shared the highest score and the
\* first of them was returned.
C22_TieReturnedFirst ==
    /\ ppc = "found"
    /\ Len(frameSignals) = 2
    /\ QualifyingOf(frameSignals) = {1, 2}
    /\ frameSignals[1].score = frameSignals[2].score
    /\ frameSignals[1] # frameSignals[2]
    /\ selected = 1

\* a signal over the strict threshold
IsStrict(s) == s.buyCntCount > 0 \/ s.autoButtonCount > 0 \/ s.score >= 14

\* C23: on a poll tick where some sub-document clears the strict threshold,
\* the candidate list holds strict candidates only, so that a sub-document
\* over the relaxed threshold alone is never returned on such a tick.
C23_RelaxedOnlyWithoutStrict ==
    (AfterTick /\ \E i \in DOMAIN frameSignals : IsStrict(frameSignals[i]))
        => /\ \A k \in DOMAIN candidates : IsStrict(frameSignals[candidates[k]])
           /\ IsStrict(frameSignals[selected])

\* C23 witness: no sub-document was strict and one over the relaxed
\* threshold alone was returned.
C23_RelaxedReturned ==
    /\ ppc = "found"
    /\ ~IsStrict(frameSignals[selected])
    /\ frameSignals[selected].score >= 4
    /\ Len(frameSignals) = 2

\* C24: within one poll the tab switch is triggered at most once, only on
\* a tick that found no candidate, and the poll goes on after it: it ends
\* only with a returned sub-document or once the timeout has elapsed.
C24_NudgedOnceThenPolls ==
    /\ [](tabViewCalls <= 1)
    /\ [][tabViewCalls' > tabViewCalls
             => /\ ppc = "counting"
                /\ tabViewCalls = 0
                /\ QualifyingOf(frameSignals') = {}
                /\ candidates' = <<>>
                /\ ppc' = "discover"
                /\ gameFrame' = gameFrame]_vars
    /\ [][(ppc = "counting" /\ ppc' \notin {"counting", "discover"})
             => (ppc' = "found" \/ elapsed >= PollBudget)]_vars

\* C24 witness: a poll triggered the tab switch and a later tick of the
\* same poll returned a sub-document.
C24_FoundAfterNudge ==
    /\ ppc = "found"
    /\ tabViewCalls = 1
    /\ triggeredTabView
    /\ elapsed > 0

\* C25: the error buyPension720Auto raises when discovery has exhausted
\* every address carries one summary (address and per-signal counts and
\* score) for every sub-document examined.
C25_ErrorEnumeratesFrameSignals ==
    (pensionOutcome = "error"
        /\ pensionError.kind = "frame not found after all fallback steps")
        => \E part \in DOMAIN diagnostic :
              diagnostic[part] = summarizeFrames(frameSignals)

\* C26: discovery navigates the entry addresses in their listed order, none
\* skipped; every navigation starts a poll, and the next navigation comes
\* only after that poll has timed out without a sub-document; once a
\* sub-document is found nothing more is navigated.
C26_AddressesInOrderUntilFound ==
    /\ [](/\ Len(navigated) =
               (IF ppc \in {"goto", "fallback"} THEN stage - 1 ELSE stage)
          /\ \A i \in DOMAIN navigated :
                i <= Len(targetUrls) => navigated[i] = targetUrls[i]
          /\ gameFrame = "frame" => ppc = "found")
    /\ [][navigated' # navigated
             => /\ navigated' = Append(navigated, navigated'[Len(navigated')])
                /\ gameFrame = Null
                /\ ppc' = "discover"
                /\ elapsed' = 0]_vars
    /\ [][(ppc' \in {"goto", "fallback"} /\ ppc' # ppc)
             => \/ ppc = "validate"
                \/ ppc = "counting" /\ elapsed >= PollBudget
                                    /\ gameFrame' = Null]_vars
    /\ [][gameFrame = "frame" => navigated' = navigated]_vars

\* C26 witness: the first address yielded nothing, the second a
\* sub-document, and the later addresses were not navigated.
C26_FoundOnSecondAddress ==
    /\ ppc = "found"
    /\ navigated = <<"el", "m">>
    /\ gameFrame = "frame"

\* the polls of buyPension720Auto that throw on timeout
ThrowingPolls == {"frameReady", "autoPoll", "countPoll", "textPoll"}

\* C27 as stated: every polling loop whose timeout has elapsed ends in a
\* failure.
C27_EveryTimeoutIsAFailure ==
    [][(ppc \in ThrowingPolls \cup {"orderPoll"}
          /\ elapsed >= PollBudget /\ ppc' # ppc)
          => pensionOutcome' = "error"]_vars

\* C27: no polling loop runs past its timeout and the call always ends.
\* The polls for frame readiness, the random number, the selection count
\* and the selected-number text end in an error once the timeout has
\* elapsed; the discovery poll then ends without a sub-document, which
\* leads to the next address or to the discovery error; the poll for the
\* order identifier then ends the call normally with a null identifier.
C27_PollsEndAtTimeout ==
    /\ [](elapsed <= PollBudget)
    /\ [][(ppc \in ThrowingPolls /\ elapsed >= PollBudget /\ ppc' # ppc)
             => pensionOutcome' = "error"]_vars
    /\ [][(ppc = "discover" /\ elapsed >= PollBudget /\ ppc' # ppc)
             => /\ gameFrame' = Null
                /\ stage' = stage + 1 \/ pensionOutcome' = "error"]_vars
    /\ [][(ppc = "orderPoll" /\ elapsed >= PollBudget /\ ppc' # ppc)
             => pensionOutcome' = "returned" /\ orderNo' = Null]_vars
    /\ [][(ppc \in ThrowingPolls \cup {"discover", "orderPoll"}
             /\ ppc' = ppc /\ elapsed' # elapsed) => elapsed' > elapsed]_vars
    /\ <>(ppc = "done" /\ pensionOutcome \in {"returned", "error"})

\* C27 witness: the poll for the order identifier timed out and the call
\* returned a null identifier.
C27_OrderPollTimedOut ==
    /\ ppc = "done"
    /\ pensionOutcome = "returned"
    /\ orderNo = Null
    /\ elapsed >= PollBudget
    /\ submits = 1

\* C28: a network failure of a request of buyLotto645Auto reaches the
\* caller only after withRetries has used up its attempts on that request.
C28_TransientSurfacesAfterRetries ==
    (lottoOutcome = "error" /\ lottoError.kind = "network")
        => \/ readyRt.status = "thrown" /\ readyRt.calls = LottoMaxRetries
           \/ execRt.status = "thrown" /\ execRt.calls = LottoMaxRetries

\* C29: at most one browser command of the engine is outstanding.
C29_OneCommandAtATime == outstanding <= 1

\* the first message of a list that is non-empty after trimming and holds
\* a failure keyword: its index, or 0
FirstFailure(list) ==
    LET hits == {i \in DOMAIN list :
                    /\ Trim(list[i]) # <<>>
                    /\ \E keyword \in failKeywords : Includes(list[i], keyword)}
    IN IF hits = {} THEN 0 ELSE CHOOSE i \in hits : \A j \in hits : i <= j

\* C30 as stated: the result is the first message of the list that is
\* non-empty after trimming and holds a failure keyword.
C30_ReturnsTheMessageItself ==
    (hpc = "done" /\ FirstFailure(dialogArg) # 0)
        => dialogResult = dialogArg[FirstFailure(dialogArg)]

\* C30: hasHardFailureDialog returns the trimmed text of the first message
\* in list order that is non-empty after trimming and holds a failure
\* keyword, and none when there is no such message; the call leaves its
\* argument and everything else as they were.
C30_ReturnsFirstFailureTrimmed ==
    /\ [](hpc = "done"
            => dialogResult =
                  IF FirstFailure(dialogArg) = 0 THEN NoDialog
                  ELSE Trim(dialogArg[FirstFailure(dialogArg)]))
    /\ [][/\ dialogArg' = dialogArg
          /\ UNCHANGED <<rtVars, lottoVars, pensionVars, authVars,
                         scanVars>>]_vars

\* C30 witness: the first message is blank, the second has no keyword, the
\* third is a failure text wrapped in whitespace, returned trimmed.
C30_SecondMessageReturnedTrimmed ==
    /\ hpc = "done"
    /\ dialogArg = <<<<" ">>, <<" ", "oryu", " ">>>>
    /\ dialogResult = <<"oryu">>

\* C31: when the dialog check after the submit command found no failure
\* text and the order identifier never appears before the poll for it
\* times out, buyPension720Auto returns a result whose order identifier is
\* null; nothing that happens during that poll makes the call raise.
C31_NullOrderIdIsAResult ==
    /\ [][ppc = "orderPoll" => pensionOutcome' # "error"]_vars
    /\ [][(ppc = "orderPoll" /\ elapsed >= PollBudget /\ ppc' # ppc)
             => /\ pensionOutcome' = "returned"
                /\ orderNo' = Null
                /\ selectedGameCount' = selectedGameCount
                /\ page' = "closed"]_vars
    /\ [](pensionOutcome = "returned"
             => /\ orderNo \in {Null, "order-1"}
                /\ selectedGameCount >= pensionCount.n)

\* C31 witness: two games, no dialog at all, the order identifier never
\* appeared; the call returned with a null identifier.
C31_ReturnedWithoutOrderId ==
    /\ pensionOutcome = "returned"
    /\ orderNo = Null
    /\ dialogMessages = <<>>
    /\ pensionCount.n = 2
    /\ selectedGameCount = 2

\* C36: addBuyDataOne is only called with the six-digit number that the
\* random-number request of the same iteration returned with code "100";
\* a request is only made when every earlier number has been appended,
\* each number is appended once, and a call that returns has made exactly
\* as many request/append pairs as games were requested.
C36_AppendOnlyRequestedNumber ==
    /\ [](ppc = "append"
            => /\ data.resultCode = "100"
               /\ IsSixDigits(data.selLotNo)
               /\ lotNo = data.selLotNo)
    /\ [][appended' # appended
            => /\ ppc = "append"
               /\ appended' = appended + 1
               /\ lotNo' = lotNo]_vars
    /\ [][(ppc = "loop" /\ ppc' = "autoPoll") => appended = attempt]_vars
    /\ [][attempt' # attempt
            => /\ attempt' = attempt + 1
               /\ appended = attempt + 1]_vars
    /\ [](ppc \in {"countPoll", "textPoll"} => appended = attempt + 1)
    /\ [](ppc \in {"loop", "autoPoll", "append", "submitted", "orderPoll"}
            => appended = attempt)
    /\ [](pensionOutcome = "returned"
            => appended = pensionCount.n /\ attempt = pensionCount.n)

\* C36 witness: a call for three games returned after three pairs.
C36_ThreePairsReturned ==
    /\ pensionOutcome = "returned"
    /\ pensionCount.n = 3
    /\ attempt = 3
    /\ appended = 3

\* C37: requestAutoLotNo empties the result object in the command that
\* calls doAuto, so the object is empty when the poll of an iteration
\* starts and the number the iteration returns is read from what the portal
\* wrote during that poll.
C37_ResultClearedBeforeTrigger ==
    /\ [][(ppc = "loop" /\ ppc' = "autoPoll")
            => data' = NoData /\ lotNo' = lotNo]_vars
    /\ [][(ppc = "autoPoll" /\ ppc' = "append")
            => /\ data' # NoData
               /\ lotNo' = data'.selLotNo]_vars

\* C37 witness: the second iteration returned a number; the first one had
\* left its own result in the object.
C37_SecondNumberAfterLeftover ==
    /\ ppc = "append"
    /\ attempt = 1
    /\ appended = 1
    /\ lotNo = <<"6", "5", "4", "3", "2", "1">>

\* C40: the dialog buffer is inspected at one point only, after the submit
\* command.  A dialog never changes the position of the call; an error
\* "purchase failed" is only raised at that point and carries the failure
\* text found in the buffer; with a failure text in the buffer the call
\* does not go on to the order-id poll, and no call returns a result when
\* a failure text was captured before the submit command.
C40_DialogsInspectedOnlyAfterSubmit ==
    /\ [][dialogMessages' # dialogMessages
            => ppc' = ppc /\ pensionOutcome' = pensionOutcome]_vars
    /\ [][(pensionError' # pensionError
             /\ pensionError'.kind = "purchase failed")
            => /\ ppc = "submitted"
               /\ pensionError'.text # NoDialog
               /\ pensionError'.text = hasHardFailureDialog(dialogMessages)]_vars
    /\ [][(ppc = "submitted" /\ ppc' # ppc
             /\ hasHardFailureDialog(dialogMessages) # NoDialog)
            => pensionOutcome' = "error"]_vars
    /\ [](pensionOutcome = "returned"
            => hasHardFailureDialog(SubSeq(dialogMessages, 1, submittedAt))
                  = NoDialog)

\* C40 witness: the first dialog held a failure text and was captured
\* before the submit command; doOrderRequest was called and the call then
\* raised the error with that text.
C40_EarlyDialogRaisedAfterSubmit ==
    /\ pensionOutcome = "error"
    /\ pensionError.kind = "purchase failed"
    /\ submittedAt >= 1
    /\ submits = 1
    /\ hasHardFailureDialog(<<dialogMessages[1]>>) = pensionError.text

\* the configuration of a buy run is valid: the buy mode is one of the
\* four modes or aliases, both counts are integers from 1 to 5 (5 and 1
\* when unset) and both credentials are non-empty
ValidBuyConfig ==
    /\ buyMode \in {"STOP", "LOTTO_ONLY", "PENSION_ONLY", "BOTH"}
    /\ ValidCount(ParsedCount(env.LOTTO_COUNT, 5))
    /\ ValidCount(ParsedCount(env.PENSION_COUNT, 1))
    /\ ~Missing(env.LOTTO_USER_ID)
    /\ ~Missing(env.LOTTO_USER_PASSWORD)

\* C32: in a buy run the configuration is validated before anything else:
\* with an invalid buy mode, count or credential no browser is launched,
\* no context is created and no login, purchase or balance query is made,
\* and the run ends in an error reported as a configuration error; a
\* browser is only ever launched on a valid configuration.
C32_InvalidConfigNeverReachesCore ==
    /\ ~ValidBuyConfig
         => /\ browser = "none"
            /\ context = "none"
            /\ mainCalls = <<>>
            /\ mpc = "done"
                  => /\ mainOutcome = "error"
                     /\ isConfigError(mainError)
                     /\ summary = <<"FAILED (config)">>
    /\ (browser # "none" \/ mainCalls # <<>>) => ValidBuyConfig

\* C32 witness: mode, LOTTO_COUNT and credentials are valid, PENSION_COUNT
\* is 6; the run ended with the configuration error and without a browser.
C32_InvalidPensionCountRejected ==
    /\ mpc = "done"
    /\ buyMode = "BOTH"
    /\ ValidCount(ParsedCount(env.LOTTO_COUNT, 5))
    /\ env.PENSION_COUNT = [set |-> TRUE, int |-> TRUE, n |-> 6]
    /\ mainError = PensionCountMessage
    /\ summary = <<"FAILED (config)">>
    /\ browser = "none"

\* C33: with buy mode STOP or its alias NONE, in any case and with
\* surrounding whitespace, and an otherwise valid configuration, the run
\* never makes a login, purchase or balance query and stores no session
\* state, and it ends by returning with the single status SKIPPED.
C33_StopEndsSkipped ==
    (ValidBuyConfig /\ buyMode = "STOP")
        => /\ mainCalls = <<>>
           /\ mainError = NoMainError
           /\ mpc = "done"
                 => summary = <<"SKIPPED">> /\ mainOutcome = "returned"

\* C33 witness: LOTTO_BUY_MODE is " none ", the run returned with SKIPPED.
C33_NoneAliasSkipped ==
    /\ mpc = "done"
    /\ env.LOTTO_BUY_MODE = EnvText(<<" ", "none", " ">>)
    /\ summary = <<"SKIPPED">>
    /\ mainCalls = <<>>

\* C34: every buy run hands exactly one status to the summary.  The status
\* is SUCCESS or SKIPPED exactly when run returns; SUCCESS is only written
\* when every call of the run returned and the session state was stored;
\* a run in which a call threw ends with FAILED (other), whatever had
\* succeeded before; FAILED (config) is the status of exactly the runs
\* with an invalid configuration.
C34_ExactlyOneTerminalStatus ==
    /\ Len(summary) <= 1
    /\ mpc = "done"
         => /\ Len(summary) = 1
            /\ summary[1] \in {"SUCCESS", "SKIPPED", "FAILED (config)",
                               "FAILED (other)"}
            /\ mainOutcome = "returned" <=> summary[1] \in {"SUCCESS", "SKIPPED"}
            /\ summary[1] = "SUCCESS"
                  => /\ \A i \in 1..Len(mainCalls) : mainCalls[i].ok
                     /\ mainCalls # <<>>
                     /\ mainCalls[Len(mainCalls)].op = "storageState"
            /\ (\E i \in 1..Len(mainCalls) : ~mainCalls[i].ok)
                  => summary[1] = "FAILED (other)"
            /\ summary[1] = "FAILED (config)" <=> ~ValidBuyConfig

\* C34 witness: in BOTH mode login and the lotto purchase returned and the
\* pension purchase threw; the single status is FAILED (other).
C34_FailedAfterLottoSucceeded ==
    /\ mpc = "done"
    /\ buyMode = "BOTH"
    /\ Len(mainCalls) = 3
    /\ mainCalls[2] = [op |-> "lotto", ok |-> TRUE]
    /\ mainCalls[3] = [op |-> "pension", ok |-> FALSE]
    /\ summary = <<"FAILED (other)">>

\* the calls main makes in a mode when none of them throws, in order
ExpectedCalls(m) ==
    <<"login">>
        \o (IF m \in {"LOTTO_ONLY", "BOTH"} THEN <<"lotto">> ELSE <<>>)
        \o (IF m \in {"PENSION_ONLY", "BOTH"} THEN <<"pension">> ELSE <<>>)
        \o <<"balance", "storageState">>

\* C38: the calls of a buy run are, in order, login, the lotto purchase
\* when the mode is LOTTO_ONLY or BOTH, the pension purchase when it is
\* PENSION_ONLY or BOTH, the balance query and the storing of the session
\* state, and each call is only made when every call before it returned:
\* no purchase without a successful login, in BOTH mode no pension purchase
\* without a successful lotto purchase, and no stored session state unless
\* the purchases and the balance query succeeded.
C38_CallsInOrderAfterSuccess ==
    mainCalls # <<>>
        => /\ buyMode \in {"LOTTO_ONLY", "PENSION_ONLY", "BOTH"}
           /\ Len(mainCalls) <= Len(ExpectedCalls(buyMode))
           /\ \A i \in 1..Len(mainCalls) :
                 /\ mainCalls[i].op = ExpectedCalls(buyMode)[i]
                 /\ i < Len(mainCalls) => mainCalls[i].ok

\* C38 witness: in BOTH mode login returned and the lotto purchase threw;
\* the run ended without a pension purchase.
C38_LottoFailedNoPension ==
    /\ mpc = "done"
    /\ buyMode = "BOTH"
    /\ mainCalls = <<[op |-> "login", ok |-> TRUE],
                     [op |-> "lotto", ok |-> FALSE]>>

DocumentedTargets == {<<"lotto365">>, <<"pension">>, <<"LO40">>, <<"LP72">>}

\* C35 (as claimed): the weekly check accepts the targets lotto365,
\* pension, LO40 and LP72 and rejects every other value with a
\* configuration error before any login.
C35_AcceptsDocumentedTargets ==
    /\ mainError = TargetMessage
         => OrDefault(env.CHECK_TARGET, <<>>) \notin DocumentedTargets
    /\ mainError = TargetMessage => mainCalls = <<>> /\ browser = "none"

====
